---- MODULE Spec2Model ----
(***************************************************************************)
(* Reviewer allocation of jagoncalves14/allocate-reviewers.                *)
(*                                                                         *)
(*   SpecSelector  the Selector shuffle_and_get_the_most_available_names   *)
(*                 applied to bounded inputs                               *)
(*   Spec          the single-pass individual allocator                    *)
(*                 (src/allocate_reviewers.py, allocate_reviewers)         *)
(*   SpecRetry     the retry-based allocator                               *)
(*                 (src/scripts/rotate_devs_reviewers.py)                  *)
(*   SpecTeams     the team allocator                                      *)
(*                 (src/scripts/rotate_team_reviewers.py)                  *)
(*   SpecLoader    load_developers_from_sheet and the configured default   *)
(*                 (src/lib/utilities.py)                                  *)
(*   SpecRunner    main of src/scripts/run_multi_sheet_rotation.py         *)
(*   SpecCheck     main of src/scripts/check_scheduled_rotation_needed.py  *)
(*   SpecRotator   the deterministic rotator, two runs in a row            *)
(*   SpecFinalPass phase 3 of run_reviewer_allocation_algorithm on the     *)
(*                 rosters that phase 2 can hand over                      *)
(*   SpecSheetRotation  one call of run_devs_rotation_for_sheet            *)
(*   SpecSheet     the sprint columns of a sheet under scheduled and       *)
(*                 manual runs                                             *)
(***************************************************************************)
EXTENDS Integers, Sequences, FiniteSets, TLC

VARIABLES
    pc,                           \* position of the running function
    devs,                         \* the caller's list of Developer records
    valid_experienced_dev_names,  \* configured experienced names that are in the roster
    i,                            \* index of the next developer of the current loop
    available_names,              \* Selector call: the candidate set
    number_of_names,              \* Selector call: the requested count
    result,                       \* Selector call: the outcome
    devs_copy,                    \* retry allocator: the roster of the running attempt
    attempt,                      \* retry allocator: number of attempts started
    max_retries,                  \* retry allocator: the retry budget
    best_attempt,                 \* retry allocator: best roster so far, or None
    best_assigned_count,          \* retry allocator: its score
    failed_attempts,              \* retry allocator: attempts ended by an exception
                                  \* (the "Attempt n failed" lines of the log)
    teams,                        \* team allocator: the list of team records
    all_developers,               \* team allocator: the names of the optional second
                                  \* argument ({} when it is None or empty)
    UNEXPERIENCED_DEV_NAMES,      \* team allocator: the configured unexperienced names
    experienced_devs,             \* team allocator: the experienced pool
    assignment_count,             \* team allocator: name -> number of teams reviewed
    DEFAULT_REVIEWER_NUMBER,      \* loader: lib.env_constants.DEFAULT_REVIEWER_NUMBER
    utilities_DEFAULT_REVIEWER_NUMBER,
                                  \* loader: the name DEFAULT_REVIEWER_NUMBER that
                                  \* lib.utilities imported (0 before the import)
    records,                      \* loader: the "Number of Reviewers" cell of each row
    developers,                   \* loader: the reviewer_number of each loaded developer
    args_type,                    \* runner: --type
    sheet_names,                  \* runner: the configured sheets
    results,                      \* runner: the counters of main
    sheet_events,                 \* runner: what happened in the attempts of each
                                  \* sheet's rotations
    exit_code,                    \* runner: the argument of sys.exit
    environ,                      \* check: LAST_SCHEDULED_ROTATION_DATE in os.environ
    now,                          \* check: datetime.now()
    last_date_str,                \* check: the value read and stripped
    last_date,                    \* check: the date parsed from it
    days_since,                   \* check: whole days from last_date to now
    check_exit,                   \* check: the argument of sys.exit
    ring,                         \* rotator: the developers in ring order
    experienced_names,            \* rotator: the experienced set
    previous_indexes,             \* rotator: name -> indexes kept from the last run
    index_recorded,               \* rotator: which index reviewer_indexes keeps
    run,                          \* rotator: number of the running rotate call
    skip,                         \* rotator: skip of the running find_reviewer
    senior_of,                    \* rotator: name -> first reviewer of this run
    preceding_senior_of,          \* rotator: name -> first reviewer of the last run
    devs_before_phase3,           \* final pass: the roster as phase 2 left it
    rotation_max_retries,         \* sheet rotation: max_retries of
                                  \* run_devs_rotation_for_sheet
    error_msg,                    \* sheet rotation: str(exc) of the last exception
    returned,                     \* sheet rotation: the value returned, or None
    date_columns,                 \* sheet: the headers of row 1 after the expected
                                  \* headers, the newest sprint column first
    sheet_now,                    \* sheet: datetime.now()
    manual_runs                   \* sheet: manual runs since the last scheduled run

\* the state of the Selector and of the two individual allocators, but for
\* the position (pc, i)
allocVars == <<devs, valid_experienced_dev_names, available_names,
               number_of_names, result, devs_copy, attempt, max_retries,
               best_attempt, best_assigned_count, failed_attempts>>

\* the state of the team allocator
teamVars == <<teams, all_developers, UNEXPERIENCED_DEV_NAMES, experienced_devs,
              assignment_count>>

\* the state of load_developers_from_sheet and of the configuration it reads
loaderVars == <<DEFAULT_REVIEWER_NUMBER, utilities_DEFAULT_REVIEWER_NUMBER,
                records, developers>>

\* the state of the multi-sheet runner
runnerVars == <<args_type, sheet_names, results, sheet_events, exit_code>>

\* the state of the scheduled-rotation check
checkVars == <<environ, now, last_date_str, last_date, days_since, check_exit>>

\* the state of the deterministic rotator
rotatorVars == <<ring, experienced_names, previous_indexes, index_recorded,
                 run, skip, senior_of, preceding_senior_of>>

\* the roster kept from the start of the final pass
passVars == <<devs_before_phase3>>

\* the state of one call of run_devs_rotation_for_sheet
attemptVars == <<rotation_max_retries, error_msg, returned>>

\* the sprint columns of one sheet and the clock
sheetVars == <<date_columns, sheet_now, manual_runs>>

\* the state of the components other than the Selector and the individual
\* allocators
laterVars == <<teamVars, loaderVars, runnerVars, checkVars, rotatorVars, passVars, attemptVars, sheetVars>>

\* the state that the team allocator leaves alone
outsideTeams == <<allocVars, loaderVars, runnerVars, checkVars, rotatorVars, passVars, attemptVars, sheetVars>>

\* the state that the loader leaves alone
outsideLoader == <<allocVars, teamVars, runnerVars, checkVars, rotatorVars, passVars, attemptVars, sheetVars>>

\* the state that the multi-sheet runner leaves alone
outsideRunner == <<allocVars, teamVars, loaderVars, checkVars, rotatorVars, passVars, attemptVars, sheetVars>>

\* the state that the scheduled-rotation check leaves alone
outsideCheck == <<allocVars, teamVars, loaderVars, runnerVars, rotatorVars, passVars, attemptVars, sheetVars>>

\* the state that the deterministic rotator leaves alone
outsideRotator == <<allocVars, teamVars, loaderVars, runnerVars, checkVars, passVars, attemptVars, sheetVars>>

\* the state that run_devs_rotation_for_sheet leaves alone
outsideAttempts == <<allocVars, teamVars, loaderVars, runnerVars, checkVars, rotatorVars, passVars, sheetVars>>

\* the state that the runs that write the sheet leaves alone
outsideSheet == <<allocVars, teamVars, loaderVars, runnerVars, checkVars, rotatorVars, passVars, attemptVars>>


vars == <<pc, i, allocVars, laterVars>>

-----------------------------------------------------------------------------
(* Bounds of the model *)

\* largest roster of the Selector and single-pass specifications
MaxDevs == 3
\* largest reviewer_number of a developer
MaxReviewerNumber == 2
\* largest preference list of a developer
MaxPreferable == 2
\* largest count requested from the Selector
MaxCount == 3
\* largest roster of the retry-based allocator
MaxRetryDevs == 4
\* largest preference list given to the retry-based allocator
MaxRetryPreferable == 1
\* largest max_retries of the retry-based allocator
MaxRetries == 2
\* largest roster on which the retry-based allocator runs with the default
\* max_retries
MaxDefaultRetryDevs == 2
\* largest roster given to the final pass on its own
MaxPassDevs == 3
\* longest exception message, in pieces
MaxMessageLen == 4
\* largest number of sprint columns of the sheet
MaxColumns == 2
\* largest number of manual runs after one scheduled run
MaxManualRuns == 2
\* largest number of teams given to the team allocator
MaxTeams == 2
\* number of developers that teams are made of
MaxTeamDevs == 3
\* largest number of rows of the developers sheet
MaxRecords == 2
\* largest number of digits of a "Number of Reviewers" cell
MaxCellDigits == 2
\* largest default that the Config sheet holds
MaxConfigDefault == 3
\* largest number of configured sheets
MaxSheets == 2
\* last year of datetime.now()
MaxYear == 2025
\* largest ring of the deterministic rotator
MaxRing == 3
\* largest reviewer_number of a developer of the ring
MaxRingReviewers == 2
\* depth at which the recursion of find_reviewer exhausts the stack
RecursionLimit == 5

\* developer names, in the order of the input list
DevNames == <<"A", "B", "C", "D", "E">>
\* a name that no roster record carries
Outsider == "X"

None == "None"

\* best_attempt = None: no attempt is kept (an empty list is as false)
NoAttempt == <<>>

\* assign_team_reviewers is not called
TeamIdle ==
    /\ teams = <<>>
    /\ all_developers = {}
    /\ UNEXPERIENCED_DEV_NAMES = {}
    /\ experienced_devs = {}
    /\ assignment_count = <<>>

\* the Selector and the individual allocators are not called
AllocIdle ==
    /\ devs = <<>>
    /\ valid_experienced_dev_names = {}
    /\ available_names = {}
    /\ number_of_names = 0
    /\ result = None
    /\ devs_copy = <<>>
    /\ attempt = 0
    /\ max_retries = 0
    /\ best_attempt = NoAttempt
    /\ best_assigned_count = 0
    /\ failed_attempts = 0

\* load_developers_from_sheet is not called
LoaderIdle ==
    /\ DEFAULT_REVIEWER_NUMBER = 0
    /\ utilities_DEFAULT_REVIEWER_NUMBER = 0
    /\ records = <<>>
    /\ developers = <<>>

\* the multi-sheet runner is not started
RunnerIdle ==
    /\ args_type = None
    /\ sheet_names = <<>>
    /\ results = <<>>
    /\ sheet_events = <<>>
    /\ exit_code = 0

\* the scheduled-rotation check is not started
CheckIdle ==
    /\ environ = [set |-> FALSE, padded |-> FALSE, fields |-> <<>>, sep |-> "-"]
    /\ now = [year |-> 1, month |-> 1, day |-> 1, second |-> 0]
    /\ last_date_str = [fields |-> <<>>, sep |-> "-"]
    /\ last_date = [year |-> 1, month |-> 1, day |-> 1, second |-> 0]
    /\ days_since = 0
    /\ check_exit = 0

\* rotate is not called
RotatorIdle ==
    /\ ring = <<>>
    /\ experienced_names = {}
    /\ previous_indexes = <<>>
    /\ index_recorded = None
    /\ run = 0
    /\ skip = 0
    /\ senior_of = <<>>
    /\ preceding_senior_of = <<>>

\* the final pass is not run on its own
PassIdle == devs_before_phase3 = <<>>

\* no run writes the sheet
SheetIdle ==
    /\ date_columns = <<>>
    /\ sheet_now = [year |-> 1, month |-> 1, day |-> 1, second |-> 0]
    /\ manual_runs = 0

\* run_devs_rotation_for_sheet is not called on its own
AttemptIdle ==
    /\ rotation_max_retries = 0
    /\ error_msg = <<>>
    /\ returned = None

\* the other components are not called
LaterIdle == TeamIdle /\ LoaderIdle /\ RunnerIdle /\ CheckIdle /\ RotatorIdle /\ PassIdle /\ AttemptIdle /\ SheetIdle

\* nothing but the team allocator is called
OutsideTeamsIdle == AllocIdle /\ LoaderIdle /\ RunnerIdle /\ CheckIdle /\ RotatorIdle /\ PassIdle /\ AttemptIdle /\ SheetIdle

\* nothing but the loader is called
OutsideLoaderIdle == AllocIdle /\ TeamIdle /\ RunnerIdle /\ CheckIdle /\ RotatorIdle /\ PassIdle /\ AttemptIdle /\ SheetIdle

\* nothing but the multi-sheet runner is called
OutsideRunnerIdle == AllocIdle /\ TeamIdle /\ LoaderIdle /\ CheckIdle /\ RotatorIdle /\ PassIdle /\ AttemptIdle /\ SheetIdle

\* nothing but the scheduled-rotation check is called
OutsideCheckIdle == AllocIdle /\ TeamIdle /\ LoaderIdle /\ RunnerIdle /\ RotatorIdle /\ PassIdle /\ AttemptIdle /\ SheetIdle

\* nothing but the deterministic rotator is called
OutsideRotatorIdle == AllocIdle /\ TeamIdle /\ LoaderIdle /\ RunnerIdle /\ CheckIdle /\ PassIdle /\ AttemptIdle /\ SheetIdle

\* nothing but run_devs_rotation_for_sheet is called
OutsideAttemptsIdle == AllocIdle /\ TeamIdle /\ LoaderIdle /\ RunnerIdle /\ CheckIdle /\ RotatorIdle /\ PassIdle /\ SheetIdle

\* nothing but the runs that write the sheet is called
OutsideSheetIdle == AllocIdle /\ TeamIdle /\ LoaderIdle /\ RunnerIdle /\ CheckIdle /\ RotatorIdle /\ PassIdle /\ AttemptIdle

\* no component but the allocators is called
BesideAllocIdle == TeamIdle /\ LoaderIdle /\ RunnerIdle /\ CheckIdle /\ RotatorIdle /\ AttemptIdle /\ SheetIdle

-----------------------------------------------------------------------------
(* Generic helpers *)

Range(s) == {s[k] : k \in DOMAIN s}

Min(a, b) == IF a <= b THEN a ELSE b

Max(a, b) == IF a >= b THEN a ELSE b

\* the names of the first n developers
RosterNames(n) == {DevNames[k] : k \in 1..n}

\* all orderings of a finite set, as sequences: list(a_set) followed by
\* random.shuffle gives any of them
Orderings(S) ==
    {s \in [1..Cardinality(S) -> S] : \A a, b \in DOMAIN s : a # b => s[a] # s[b]}

\* Developer(name, reviewer_number, preferable_reviewer_names) with the
\* default (empty) reviewer_names and review_for
Developer(name, reviewer_number, preferable_reviewer_names) ==
    [name |-> name,
     reviewer_number |-> reviewer_number,
     preferable_reviewer_names |-> preferable_reviewer_names,
     reviewer_names |-> {},
     review_for |-> {}]

\* next(dev for dev in devs if dev.name == name): index of the first record
\* with that name, 0 when there is none (next() raises StopIteration)
FindDev(ds, name) ==
    IF \E k \in DOMAIN ds : ds[k].name = name
    THEN CHOOSE k \in DOMAIN ds :
            /\ ds[k].name = name
            /\ \A j \in DOMAIN ds : ds[j].name = name => k <= j
    ELSE 0

\* the record of ds that carries the name
Named(ds, name) == ds[FindDev(ds, name)]

\* {dev.name for dev in devs}
AllDevNames(ds) == {ds[k].name : k \in DOMAIN ds}

-----------------------------------------------------------------------------
(* list.sort as CPython runs it on a list shorter than 64: count_run finds  *)
(* the run the list starts with, binarysort inserts the rest. lt[<<x, y>>]  *)
(* is key(x) < key(y), the only comparison the sort makes.                  *)

Reverse(s) == [k \in 1..Len(s) |-> s[Len(s) + 1 - k]]

\* count_run: the length of the initial run, n items of it known so far;
\* a descending run is strict, an ascending run is "not descending"
RECURSIVE RunLength(_, _, _, _)
RunLength(a, lt, n, descending) ==
    IF n >= Len(a) THEN n
    ELSE IF lt[<<a[n + 1], a[n]>>] = descending
    THEN RunLength(a, lt, n + 1, descending)
    ELSE n

\* binarysort's search: the 0-based place of pivot in the sorted a[l..r-1]
RECURSIVE BinaryPos(_, _, _, _, _)
BinaryPos(a, lt, pivot, l, r) ==
    IF l >= r THEN l
    ELSE LET p == l + ((r - l) \div 2)
         IN  IF lt[<<pivot, a[p + 1]>>]
             THEN BinaryPos(a, lt, pivot, l, p)
             ELSE BinaryPos(a, lt, pivot, p + 1, r)

\* binarysort: the first `start` items are sorted, insert the others
RECURSIVE BinarySort(_, _, _)
BinarySort(a, lt, start) ==
    IF start >= Len(a) THEN a
    ELSE LET pivot == a[start + 1]
             l == BinaryPos(a, lt, pivot, 0, start)
         IN  BinarySort(SubSeq(a, 1, l) \o <<pivot>> \o SubSeq(a, l + 1, start)
                            \o SubSeq(a, start + 2, Len(a)),
                        lt, start + 1)

\* a mutant of ListSort: the list is left as it was
ListSortSkipped(a, lt) == a

\* list.sort(key=...)
ListSort(a, lt) ==
    IF Len(a) < 2 THEN a
    ELSE LET descending == lt[<<a[2], a[1]>>]
             n == RunLength(a, lt, 2, descending)
         IN  BinarySort(IF descending
                        THEN Reverse(SubSeq(a, 1, n)) \o SubSeq(a, n + 1, Len(a))
                        ELSE a,
                        lt, n)

\* list.sort(key=..., reverse=True): reversed, sorted, reversed again
ListSortReverse(a, lt) == Reverse(ListSort(Reverse(a), lt))

\* the first n positions, in order
Positions(n) == [k \in 1..n |-> k]

\* a mutant of Slice: one name too few
SliceOneShort(names, n) ==
    IF n <= 1 THEN <<>> ELSE SubSeq(names, 1, Min(n - 1, Len(names)))

\* names[0:n]; a negative n counts from the end
Slice(names, n) ==
    IF n >= 0 THEN SubSeq(names, 1, Min(n, Len(names)))
    ELSE SubSeq(names, 1, Max(Len(names) + n, 0))

-----------------------------------------------------------------------------
(* The Selector *)

Returned(names) == [raised |-> FALSE, names |-> names]

\* the key function's next() found no record: StopIteration leaves the call
Raised == [raised |-> TRUE, names |-> <<>>]

\* the sort key of a name: len(review_for) of the first record of that name
Load(ds, name) == Cardinality(ds[FindDev(ds, name)].review_for)

\* a mutant of shuffle_and_get_the_most_available_names: a candidate that
\* no record carries is left out instead of raising
shuffle_ignoring_unknown_names(available, number, ds) ==
    LET known == {name \in available : FindDev(ds, name) # 0}
        lt == [p \in known \X known |-> Load(ds, p[1]) < Load(ds, p[2])]
    IN  IF number = 0 \/ known = {} THEN {Returned(<<>>)}
        ELSE {Returned(Slice(ListSort(names, lt), number)) :
                 names \in Orderings(known)}

\* the outcomes of one call, one for each order the shuffle can produce
shuffle_and_get_the_most_available_names(available, number, ds) ==
    IF number = 0 THEN {Returned(<<>>)}
    ELSE IF 0 = Cardinality(available) /\ Cardinality(available) <= number
    THEN {Returned(<<>>)}
    ELSE IF \E name \in available : FindDev(ds, name) = 0
    THEN {Raised}
    ELSE LET lt == [p \in available \X available |->
                       Load(ds, p[1]) < Load(ds, p[2])]
         IN  {Returned(Slice(ListSort(names, lt), number)) :
                 names \in Orderings(available)}

-----------------------------------------------------------------------------
(* SpecSelector: one call of the Selector on a roster with arbitrary loads *)

\* rosters of n developers whose review_for is any set of roster names
LoadedRosters(n) ==
    {[k \in 1..n |->
        [name |-> DevNames[k], reviewer_number |-> 1,
         preferable_reviewer_names |-> {}, reviewer_names |-> {},
         review_for |-> rf[k]]] : rf \in [1..n -> SUBSET RosterNames(n)]}

InitSelector ==
    /\ pc = "call"
    /\ \E n \in 1..MaxDevs :
         /\ devs \in LoadedRosters(n)
         /\ available_names \in SUBSET (RosterNames(n) \cup {Outsider})
    /\ number_of_names \in 0..MaxCount
    /\ result = None
    /\ valid_experienced_dev_names = {}
    /\ i = 0
    /\ devs_copy = <<>>
    /\ attempt = 0
    /\ max_retries = 0
    /\ best_attempt = NoAttempt
    /\ best_assigned_count = 0
    /\ failed_attempts = 0
    /\ LaterIdle

\* a mutant of SelectorCall: the names returned are taken out of the
\* candidate set of the caller
SelectorCallTakingNames ==
    /\ pc = "call"
    /\ \E r \in shuffle_and_get_the_most_available_names(
                    available_names, number_of_names, devs) :
         /\ result' = r
         /\ available_names' = IF r.raised THEN available_names
                                ELSE available_names \ Range(r.names)
         /\ pc' = IF r.raised THEN "raised" ELSE "returned"
    /\ UNCHANGED <<devs, valid_experienced_dev_names, i,
                   number_of_names, devs_copy, attempt, max_retries,
                   best_attempt, best_assigned_count, failed_attempts>>
    /\ UNCHANGED laterVars

SelectorCall ==
    /\ pc = "call"
    /\ \E r \in shuffle_and_get_the_most_available_names(
                    available_names, number_of_names, devs) :
         /\ result' = r
         /\ pc' = IF r.raised THEN "raised" ELSE "returned"
    /\ UNCHANGED <<devs, valid_experienced_dev_names, i, available_names,
                   number_of_names, devs_copy, attempt, max_retries,
                   best_attempt, best_assigned_count, failed_attempts>>
    /\ UNCHANGED laterVars

NextSelector == SelectorCall

SpecSelector == InitSelector /\ [][NextSelector]_vars

-----------------------------------------------------------------------------
(* Spec: the single-pass individual allocator, src/allocate_reviewers.py *)

\* the preference lists a developer of an n-developer roster can have:
\* any names, its own and a name outside the roster included
PreferableSets(n) ==
    {P \in SUBSET (RosterNames(n) \cup {Outsider}) : Cardinality(P) <= MaxPreferable}

\* fresh rosters: n uniquely named developers, empty reviewer_names/review_for
FreshRosters(n) ==
    {[k \in 1..n |-> Developer(DevNames[k], rn[k], pref[k])] :
        rn \in [1..n -> 0..MaxReviewerNumber],
        pref \in [1..n -> PreferableSets(n)]}

\* valid_experienced_dev_names: the configured names that are roster names
ValidExperienced(experienced_dev_names, ds) ==
    {name \in experienced_dev_names : name \in AllDevNames(ds)}

Init ==
    /\ pc = "sort"
    /\ \E n \in 1..MaxDevs :
         /\ devs \in FreshRosters(n)
         /\ \E experienced_dev_names \in SUBSET (RosterNames(n) \cup {Outsider}) :
               valid_experienced_dev_names =
                   ValidExperienced(experienced_dev_names, devs)
    /\ i = 0
    /\ available_names = {}
    /\ number_of_names = 0
    /\ result = None
    /\ devs_copy = <<>>
    /\ attempt = 0
    /\ max_retries = 0
    /\ best_attempt = NoAttempt
    /\ best_assigned_count = 0
    /\ failed_attempts = 0
    /\ LaterIdle

\* devs.sort(key=lambda dev: dev.preferable_reviewer_names, reverse=True):
\* the keys are sets, and "<" on sets is proper inclusion
SortBySetKey(ds) ==
    LET lt == [p \in (DOMAIN ds) \X (DOMAIN ds) |->
                  /\ ds[p[1]].preferable_reviewer_names
                         \subseteq ds[p[2]].preferable_reviewer_names
                  /\ ds[p[1]].preferable_reviewer_names
                         # ds[p[2]].preferable_reviewer_names]
        order == ListSortReverse(Positions(Len(ds)), lt)
    IN  [k \in DOMAIN ds |-> ds[order[k]]]

\* a mutant of selectable_number_getter: nothing is left to fill once a
\* name is chosen
selectable_number_unless_chosen(reviewer_number, chosen_reviewer_names) ==
    IF chosen_reviewer_names = {} THEN reviewer_number ELSE 0

\* selectable_number_getter
selectable_number_getter(reviewer_number, chosen_reviewer_names) ==
    Max(reviewer_number - Cardinality(chosen_reviewer_names), 0)

\* a mutant of experienced_reviewer_number_getter: no mandatory slot once
\* the target is reached
experienced_getter_within_target(reviewer_number, chosen_reviewer_names, valid) ==
    IF chosen_reviewer_names \cap valid # {} THEN 0
    ELSE Min(1, selectable_number_getter(reviewer_number, chosen_reviewer_names))

\* experienced_reviewer_number_getter: 1 unless an experienced name is chosen
experienced_reviewer_number_getter(reviewer_number, chosen_reviewer_names, valid) ==
    IF chosen_reviewer_names \cap valid # {} THEN 0 ELSE 1

\* a mutant of SelectableNames: the developer itself is not excluded
SelectableNamesWithSelf(names, dev_name, chosen_reviewer_names) ==
    {name \in names : name \notin chosen_reviewer_names}

\* the candidates of one phase: not the developer, not a name already chosen
SelectableNames(names, dev_name, chosen_reviewer_names) ==
    {name \in names : name \notin ({dev_name} \cup chosen_reviewer_names)}

\* one phase of the loop over configures: the sets chosen_reviewer_names can
\* be after it, or Raised
Phase(ds, dev_name, names, number, chosen_reviewer_names) ==
    {IF o.raised THEN Raised
     ELSE Returned(chosen_reviewer_names \cup Range(o.names)) :
        o \in shuffle_and_get_the_most_available_names(
                 SelectableNames(names, dev_name, chosen_reviewer_names),
                 number, ds)}

\* a mutant of ChooseReviewers: the configures are in the order everyone,
\* experienced, preferable
ChooseReviewersGeneralFirst(ds, k, valid) ==
    LET dev == ds[k]
        all_dev_names == AllDevNames(ds)
        reviewer_number == Min(dev.reviewer_number, Cardinality(all_dev_names) - 1)
        after1 == Phase(ds, dev.name, all_dev_names,
                        selectable_number_getter(reviewer_number, {}), {})
        after2 == UNION {IF o.raised THEN {Raised}
                         ELSE Phase(ds, dev.name, valid,
                                    experienced_reviewer_number_getter(
                                        reviewer_number, o.names, valid),
                                    o.names) : o \in after1}
    IN  UNION {IF o.raised THEN {Raised}
               ELSE Phase(ds, dev.name, dev.preferable_reviewer_names,
                          selectable_number_getter(reviewer_number, o.names),
                          o.names) : o \in after2}

\* the three phases for developer ds[k]: preferable, experienced, everyone
ChooseReviewers(ds, k, valid) ==
    LET dev == ds[k]
        all_dev_names == AllDevNames(ds)
        reviewer_number == Min(dev.reviewer_number, Cardinality(all_dev_names) - 1)
        after1 == Phase(ds, dev.name, dev.preferable_reviewer_names,
                        selectable_number_getter(reviewer_number, {}), {})
        after2 == UNION {IF o.raised THEN {Raised}
                         ELSE Phase(ds, dev.name, valid,
                                    experienced_reviewer_number_getter(
                                        reviewer_number, o.names, valid),
                                    o.names) : o \in after1}
    IN  UNION {IF o.raised THEN {Raised}
               ELSE Phase(ds, dev.name, all_dev_names,
                          selectable_number_getter(reviewer_number, o.names),
                          o.names) : o \in after2}

\* a mutant of AssignReviewers: review_for is not recorded
AssignReviewersOneWay(ds, k, chosen_reviewer_names) ==
    [j \in DOMAIN ds |->
        IF j = k
        THEN [ds[j] EXCEPT !.reviewer_names =
                 @ \cup (chosen_reviewer_names \cap AllDevNames(ds))]
        ELSE ds[j]]

\* for reviewer in (dev for dev in devs if dev.name in chosen_reviewer_names):
\*     dev.reviewer_names.add(reviewer.name); reviewer.review_for.add(dev.name)
AssignReviewers(ds, k, chosen_reviewer_names) ==
    LET reviewers == {j \in DOMAIN ds : ds[j].name \in chosen_reviewer_names}
    IN  [j \in DOMAIN ds |->
            [ds[j] EXCEPT
                !.reviewer_names =
                    IF j = k THEN @ \cup {ds[r].name : r \in reviewers} ELSE @,
                !.review_for =
                    IF j \in reviewers THEN @ \cup {ds[k].name} ELSE @]]

\* lines 98-108: the roster is sorted before the loop
SortDevs ==
    /\ pc = "sort"
    /\ devs' = SortBySetKey(devs)
    /\ i' = 1
    /\ pc' = "loop"
    /\ UNCHANGED <<valid_experienced_dev_names, available_names,
                   number_of_names, result, devs_copy, attempt, max_retries,
                   best_attempt, best_assigned_count, failed_attempts>>
    /\ UNCHANGED laterVars

\* one iteration of "for dev in devs"
ProcessDev ==
    /\ pc = "loop"
    /\ i <= Len(devs)
    /\ \E o \in ChooseReviewers(devs, i, valid_experienced_dev_names) :
         IF o.raised
         THEN /\ pc' = "raised"
              /\ UNCHANGED <<devs, i>>
         ELSE /\ devs' = AssignReviewers(devs, i, o.names)
              /\ i' = i + 1
              /\ pc' = IF i = Len(devs) THEN "done" ELSE "loop"
    /\ UNCHANGED <<valid_experienced_dev_names, available_names,
                   number_of_names, result, devs_copy, attempt, max_retries,
                   best_attempt, best_assigned_count, failed_attempts>>
    /\ UNCHANGED laterVars

Next == SortDevs \/ ProcessDev

Spec == Init /\ [][Next]_vars

-----------------------------------------------------------------------------
(* SpecRetry: the retry-based allocator, src/scripts/rotate_devs_reviewers.py *)

\* non_experienced_dev_names = all_dev_names - valid_experienced_dev_names
NonExperiencedNames(ds, valid) == AllDevNames(ds) \ valid

\* devs.sort(key=lambda dev: len(dev.preferable_reviewer_names), reverse=True)
SortByPreferableCount(ds) ==
    LET lt == [p \in (DOMAIN ds) \X (DOMAIN ds) |->
                  Cardinality(ds[p[1]].preferable_reviewer_names)
                      < Cardinality(ds[p[2]].preferable_reviewer_names)]
        order == ListSortReverse(Positions(Len(ds)), lt)
    IN  [k \in DOMAIN ds |-> ds[order[k]]]

\* phase 1, steps 1 and 2 for developer ds[k]: the sets chosen_reviewer_names
\* can be, or Raised
BlindChoice(ds, k) ==
    LET dev == ds[k]
        all_dev_names == AllDevNames(ds)
        reviewer_number == Min(dev.reviewer_number, Cardinality(all_dev_names) - 1)
        available_preferable == dev.preferable_reviewer_names \ {dev.name}
        step1 == IF /\ dev.preferable_reviewer_names # {}
                    /\ available_preferable # {}
                    /\ reviewer_number > 0
                 THEN {IF o.raised THEN Raised ELSE Returned(Range(o.names)) :
                          o \in shuffle_and_get_the_most_available_names(
                                   available_preferable, reviewer_number, ds)}
                 ELSE {Returned({})}
    IN  UNION {IF o.raised THEN {Raised}
               ELSE LET remaining_needed == reviewer_number - Cardinality(o.names)
                    IN  IF remaining_needed > 0
                        THEN {IF f.raised THEN Raised
                              ELSE Returned(o.names \cup Range(f.names)) :
                                 f \in shuffle_and_get_the_most_available_names(
                                          (all_dev_names \ o.names) \ {dev.name},
                                          remaining_needed, ds)}
                        ELSE {o} : o \in step1}

\* dev.reviewer_names.add(reviewer_name); reviewer.review_for.add(dev.name)
\* with reviewer = next(d for d in devs if d.name == reviewer_name)
AddReviewer(ds, k, reviewer_name) ==
    [j \in DOMAIN ds |->
        [ds[j] EXCEPT
            !.reviewer_names = IF j = k THEN @ \cup {reviewer_name} ELSE @,
            !.review_for = IF j = FindDev(ds, reviewer_name)
                           THEN @ \cup {ds[k].name} ELSE @]]

\* dev.reviewer_names.discard(reviewer_name); reviewer.review_for.discard(dev.name)
RemoveReviewer(ds, k, reviewer_name) ==
    [j \in DOMAIN ds |->
        [ds[j] EXCEPT
            !.reviewer_names = IF j = k THEN @ \ {reviewer_name} ELSE @,
            !.review_for = IF j = FindDev(ds, reviewer_name)
                           THEN @ \ {ds[k].name} ELSE @]]

\* "Apply assignments": every chosen name becomes a reviewer of ds[k]
RECURSIVE ApplyAssignments(_, _, _)
ApplyAssignments(ds, k, chosen_reviewer_names) ==
    IF chosen_reviewer_names = {} THEN ds
    ELSE LET reviewer_name == CHOOSE name \in chosen_reviewer_names : TRUE
         IN  ApplyAssignments(AddReviewer(ds, k, reviewer_name), k,
                              chosen_reviewer_names \ {reviewer_name})

\* [d for d in devs if d.name in names], sorted by len(d.review_for): the
\* positions of these records, least loaded first
ByLoad(ds, positions) ==
    ListSort(positions,
             [p \in (DOMAIN ds) \X (DOMAIN ds) |->
                 Cardinality(ds[p[1]].review_for) < Cardinality(ds[p[2]].review_for)])

\* candidates[0].name of the experienced developers named in available_exp
LeastLoaded(ds, available_exp) ==
    ds[ByLoad(ds, SelectSeq(Positions(Len(ds)),
                            LAMBDA j : ds[j].name \in available_exp))[1]].name

\* valid_experienced_dev_names - dev.reviewer_names - {dev.name}
AvailableExp(ds, k, valid) == (valid \ ds[k].reviewer_names) \ {ds[k].name}

\* rule 1: everyone must have an experienced reviewer; a non-experienced one
\* makes room when the developer is full
Rule1(ds, k, valid) ==
    LET dev == ds[k]
        available_exp == AvailableExp(ds, k, valid)
        current_non_exp == dev.reviewer_names \cap NonExperiencedNames(ds, valid)
    IN  IF dev.reviewer_names \cap valid = {} /\ available_exp # {}
        THEN LET replacement == LeastLoaded(ds, available_exp)
             IN  IF /\ Cardinality(dev.reviewer_names) >= dev.reviewer_number
                    /\ current_non_exp # {}
                 THEN {AddReviewer(RemoveReviewer(ds, k, to_remove), k, replacement) :
                          to_remove \in current_non_exp}
                 ELSE {AddReviewer(ds, k, replacement)}
        ELSE {ds}

\* the loops of rules 2 and 3: each listed reviewer is removed and, when an
\* experienced developer is available, replaced by the least loaded one;
\* rule 2 skips a name that is no longer a reviewer
RECURSIVE ReplaceWithExperienced(_, _, _, _, _)
ReplaceWithExperienced(ds, k, non_exp_list, valid, skip_absent) ==
    IF non_exp_list = <<>> THEN ds
    ELSE LET non_exp_name == Head(non_exp_list)
             removed == RemoveReviewer(ds, k, non_exp_name)
             available_exp == AvailableExp(removed, k, valid)
             replaced == IF available_exp # {}
                         THEN AddReviewer(removed, k, LeastLoaded(removed, available_exp))
                         ELSE removed
         IN  IF skip_absent /\ non_exp_name \notin ds[k].reviewer_names
             THEN ReplaceWithExperienced(ds, k, Tail(non_exp_list), valid, skip_absent)
             ELSE ReplaceWithExperienced(replaced, k, Tail(non_exp_list), valid,
                                         skip_absent)

\* a mutant of Rule2: the non-experienced reviewers are left in place
Rule2Skipped(ds, k, valid) == {ds}

\* rule 2: a non-experienced developer keeps no non-experienced reviewer
Rule2(ds, k, valid) ==
    LET current_non_exp_reviewers ==
            ds[k].reviewer_names \cap NonExperiencedNames(ds, valid)
    IN  IF ds[k].name \notin valid /\ current_non_exp_reviewers # {}
        THEN {ReplaceWithExperienced(ds, k, non_exp_list, valid, TRUE) :
                 non_exp_list \in Orderings(current_non_exp_reviewers)}
        ELSE {ds}

\* rule 3: an experienced developer keeps one non-experienced reviewer
Rule3(ds, k, valid) ==
    LET current_non_exp_reviewers ==
            ds[k].reviewer_names \cap NonExperiencedNames(ds, valid)
    IN  IF ds[k].name \in valid /\ Cardinality(current_non_exp_reviewers) > 1
        THEN {ReplaceWithExperienced(ds, k, Tail(non_exp_list), valid, FALSE) :
                 non_exp_list \in Orderings(current_non_exp_reviewers)}
        ELSE {ds}

\* phase 2 for developer ds[k]: the three rules in turn
FixViolations(ds, k, valid) ==
    UNION {UNION {Rule3(d2, k, valid) : d2 \in Rule2(d1, k, valid)} :
              d1 \in Rule1(ds, k, valid)}

\* a mutant of Phase3Candidates: free space is enough
Phase3CandidatesWithSpace(ds, u, valid) ==
    SelectSeq(Positions(Len(ds)),
              LAMBDA e :
                  /\ ds[e].name \in valid
                  /\ ds[e].name # ds[u].name
                  /\ Cardinality(ds[e].reviewer_names) < ds[e].reviewer_number)

\* phase 3: the experienced developers that can take non-experienced ds[u]
\* as a reviewer, in roster order
Phase3Candidates(ds, u, valid) ==
    SelectSeq(Positions(Len(ds)),
              LAMBDA e :
                  /\ ds[e].name \in valid
                  /\ ds[e].name # ds[u].name
                  /\ Cardinality(ds[e].reviewer_names) < ds[e].reviewer_number
                  /\ ds[e].reviewer_names \cap NonExperiencedNames(ds, valid) = {})

\* phase 3: the loop over unassigned_non_exp
RECURSIVE AssignUnassigned(_, _, _)
AssignUnassigned(ds, unassigned_non_exp, valid) ==
    IF unassigned_non_exp = <<>> THEN ds
    ELSE LET u == Head(unassigned_non_exp)
             candidates == Phase3Candidates(ds, u, valid)
         IN  IF candidates # <<>>
             THEN AssignUnassigned(
                      AddReviewer(ds, ByLoad(ds, candidates)[1], ds[u].name),
                      Tail(unassigned_non_exp), valid)
             ELSE AssignUnassigned(ds, Tail(unassigned_non_exp), valid)

\* phase 3: every non-experienced developer that reviews nobody is offered
\* to an experienced developer
EnsureNonExpAssigned(ds, valid) ==
    AssignUnassigned(
        ds,
        ByLoad(ds, SelectSeq(Positions(Len(ds)),
                             LAMBDA j : /\ ds[j].name \in NonExperiencedNames(ds, valid)
                                        /\ ds[j].review_for = {})),
        valid)

\* a mutant of AssignedCount: experienced developers are counted too
AssignedCountOfAll(ds, valid) ==
    Cardinality({j \in DOMAIN ds : ds[j].review_for # {}})

\* assigned_count: the non-experienced developers that review somebody
AssignedCount(ds, valid) ==
    Cardinality({j \in DOMAIN ds : /\ ds[j].name \in NonExperiencedNames(ds, valid)
                                   /\ ds[j].review_for # {}})

\* a mutant of CopyBack: the records of the attempt replace the input records
CopyBackRecords(ds, from) == from

\* for i, dev in enumerate(devs): dev.reviewer_names = from[i].reviewer_names;
\*                                dev.review_for = from[i].review_for
CopyBack(ds, from) ==
    [j \in DOMAIN ds |->
        [ds[j] EXCEPT !.reviewer_names = from[j].reviewer_names,
                      !.review_for = from[j].review_for]]

\* def allocate_reviewers(devs, max_retries: int = 10)
DefaultMaxRetries == 10

\* the rosters given to the retry-based allocator: preference lists of at
\* most MaxRetryPreferable names on rosters of up to MaxDevs developers, no
\* preference lists on the larger ones
RetryRosters(n) ==
    {[k \in 1..n |-> Developer(DevNames[k], rn[k], pref[k])] :
        rn \in [1..n -> 0..MaxReviewerNumber],
        pref \in [1..n -> {P \in PreferableSets(n) :
                             /\ Cardinality(P) <= MaxRetryPreferable
                             /\ n > MaxDevs => P = {}}]}

InitRetry ==
    /\ pc = "attempt"
    /\ \E n \in 1..MaxRetryDevs :
         /\ devs \in RetryRosters(n)
         /\ \E EXPERIENCED_DEV_NAMES \in SUBSET (RosterNames(n) \cup {Outsider}) :
               valid_experienced_dev_names =
                   ValidExperienced(EXPERIENCED_DEV_NAMES, devs)
    /\ max_retries \in (1..MaxRetries)
           \cup (IF Len(devs) <= MaxDefaultRetryDevs
                 THEN {DefaultMaxRetries} ELSE {})
    /\ attempt = 0
    /\ best_attempt = NoAttempt
    /\ best_assigned_count = 0
    /\ failed_attempts = 0
    /\ devs_copy = <<>>
    /\ i = 0
    /\ available_names = {}
    /\ number_of_names = 0
    /\ result = None
    /\ LaterIdle

\* for attempt in range(max_retries): devs_copy = deepcopy(devs), and the
\* attempt begins by sorting its copy
StartAttempt ==
    /\ pc = "attempt"
    /\ attempt < max_retries
    /\ attempt' = attempt + 1
    /\ devs_copy' = SortByPreferableCount(devs)
    /\ i' = 1
    /\ pc' = "phase1"
    /\ UNCHANGED <<devs, valid_experienced_dev_names, available_names,
                   number_of_names, result, max_retries, best_attempt,
                   best_assigned_count, failed_attempts>>
    /\ UNCHANGED laterVars

\* phase 1, one developer; an exception ends the attempt ("continue")
Phase1Dev ==
    /\ pc = "phase1"
    /\ \E o \in BlindChoice(devs_copy, i) :
         IF o.raised
         THEN /\ pc' = "attempt"
              /\ failed_attempts' = failed_attempts + 1
              /\ UNCHANGED <<devs_copy, i>>
         ELSE /\ devs_copy' = ApplyAssignments(devs_copy, i, o.names)
              /\ i' = IF i = Len(devs_copy) THEN 1 ELSE i + 1
              /\ pc' = IF i = Len(devs_copy) THEN "phase2" ELSE "phase1"
              /\ UNCHANGED failed_attempts
    /\ UNCHANGED <<devs, valid_experienced_dev_names, available_names,
                   number_of_names, result, attempt, max_retries, best_attempt,
                   best_assigned_count>>
    /\ UNCHANGED laterVars

\* phase 2, one developer
Phase2Dev ==
    /\ pc = "phase2"
    /\ devs_copy' \in FixViolations(devs_copy, i, valid_experienced_dev_names)
    /\ i' = IF i = Len(devs_copy) THEN 1 ELSE i + 1
    /\ pc' = IF i = Len(devs_copy) THEN "phase3" ELSE "phase2"
    /\ UNCHANGED <<devs, valid_experienced_dev_names, available_names,
                   number_of_names, result, attempt, max_retries, best_attempt,
                   best_assigned_count, failed_attempts>>
    /\ UNCHANGED laterVars

\* phase 3; run_reviewer_allocation_algorithm returns
Phase3 ==
    /\ pc = "phase3"
    /\ devs_copy' = EnsureNonExpAssigned(devs_copy, valid_experienced_dev_names)
    /\ pc' = "score"
    /\ UNCHANGED <<devs, valid_experienced_dev_names, i, available_names,
                   number_of_names, result, attempt, max_retries, best_attempt,
                   best_assigned_count, failed_attempts>>
    /\ UNCHANGED laterVars

\* lines 507-532: the attempt is scored; a perfect one is copied back
ScoreAttempt ==
    /\ pc = "score"
    /\ LET assigned_count == AssignedCount(devs_copy, valid_experienced_dev_names)
           better == assigned_count > best_assigned_count
           perfect == assigned_count = Cardinality(
                          NonExperiencedNames(devs, valid_experienced_dev_names))
       IN  /\ best_assigned_count' = IF better THEN assigned_count
                                     ELSE best_assigned_count
           /\ best_attempt' = IF better THEN devs_copy ELSE best_attempt
           /\ devs' = IF perfect THEN CopyBack(devs, devs_copy) ELSE devs
           /\ pc' = IF perfect THEN "returned" ELSE "attempt"
    /\ UNCHANGED <<valid_experienced_dev_names, i, available_names,
                   number_of_names, result, devs_copy, attempt, max_retries,
                   failed_attempts>>
    /\ UNCHANGED laterVars

\* lines 534-543: the retries are used up
UseBestAttempt ==
    /\ pc = "attempt"
    /\ attempt >= max_retries
    /\ IF best_attempt # NoAttempt
       THEN /\ devs' = CopyBack(devs, best_attempt)
            /\ pc' = "returned"
       ELSE /\ pc' = "RuntimeError"
            /\ UNCHANGED devs
    /\ UNCHANGED <<valid_experienced_dev_names, i, available_names,
                   number_of_names, result, devs_copy, attempt, max_retries,
                   best_attempt, best_assigned_count, failed_attempts>>
    /\ UNCHANGED laterVars

NextRetry ==
    \/ StartAttempt
    \/ Phase1Dev
    \/ Phase2Dev
    \/ Phase3
    \/ ScoreAttempt
    \/ UseBestAttempt

SpecRetry == InitRetry /\ [][NextRetry]_vars

-----------------------------------------------------------------------------
(* SpecFinalPass: phase 3 of run_reviewer_allocation_algorithm applied to  *)
(* the rosters that phase 2 can hand over                                  *)

\* the roster of the first n developers with these reviewer numbers, where
\* <<d, r>> \in reviews says that r reviews d
AssignedRoster(n, rn, reviews) ==
    [k \in 1..n |->
        [Developer(DevNames[k], rn[k], {}) EXCEPT
            !.reviewer_names = {r \in RosterNames(n) : <<DevNames[k], r>> \in reviews},
            !.review_for = {d \in RosterNames(n) : <<d, DevNames[k]>> \in reviews}]]

\* what phase 2 guarantees: a non-experienced developer has only experienced
\* reviewers, an experienced one at most one non-experienced reviewer
Segregated(ds, valid) ==
    \A k \in DOMAIN ds :
        IF ds[k].name \in valid
        THEN Cardinality(ds[k].reviewer_names \cap NonExperiencedNames(ds, valid)) <= 1
        ELSE ds[k].reviewer_names \subseteq valid

\* the rosters at the start of phase 3: nobody reviews themselves
RostersAfterPhase2(n) ==
    {AssignedRoster(n, rn, reviews) :
        rn \in [1..n -> 0..MaxReviewerNumber],
        reviews \in SUBSET {p \in RosterNames(n) \X RosterNames(n) : p[1] # p[2]}}

InitFinalPass ==
    /\ pc = "phase3"
    /\ \E n \in 1..MaxPassDevs :
         /\ devs_copy \in RostersAfterPhase2(n)
         /\ valid_experienced_dev_names \in SUBSET RosterNames(n)
    /\ Segregated(devs_copy, valid_experienced_dev_names)
    /\ devs_before_phase3 = devs_copy
    /\ devs = [k \in DOMAIN devs_copy |->
                  Developer(devs_copy[k].name, devs_copy[k].reviewer_number, {})]
    /\ max_retries = 1
    /\ attempt = 1
    /\ best_attempt = NoAttempt
    /\ best_assigned_count = 0
    /\ failed_attempts = 0
    /\ i = 1
    /\ available_names = {}
    /\ number_of_names = 0
    /\ result = None
    /\ BesideAllocIdle

SpecFinalPass == InitFinalPass /\ [][Phase3]_vars

-----------------------------------------------------------------------------
(* SpecTeams: the team allocator, src/scripts/rotate_team_reviewers.py *)

\* the names of the teams, in the order of the input list
TeamNames == <<"T1", "T2", "T3">>

\* a team is stored as a Developer object: preferable_reviewer_names holds
\* the members, and reviewer_names and reviewer_indexes may be left over
\* from an earlier run
Team(name, reviewer_number, members, left_over) ==
    [name |-> name,
     reviewer_number |-> reviewer_number,
     preferable_reviewer_names |-> members,
     reviewer_names |-> left_over.reviewer_names,
     reviewer_indexes |-> left_over.reviewer_indexes,
     review_for |-> {}]

\* what a record can hold before the call: nothing, or the reviewers and
\* indexes of an earlier run, one of them a name that has left the sheet
LeftOvers ==
    {[reviewer_names |-> {}, reviewer_indexes |-> {}],
     [reviewer_names |-> {DevNames[1], Outsider}, reviewer_indexes |-> {"1", "2"}]}

\* the team records of n teams
TeamRosters(n) ==
    {[k \in 1..n |-> Team(TeamNames[k], rn[k], members[k], left_over[k])] :
        rn \in [1..n -> 0..MaxReviewerNumber],
        members \in [1..n -> SUBSET RosterNames(MaxTeamDevs)],
        left_over \in [1..n -> LeftOvers]}

\* all_dev_names: every team's members, and all_developers when it is given
\* and not empty
TeamAllDevNames(ts, all_devs) ==
    UNION {ts[k].preferable_reviewer_names : k \in DOMAIN ts}
        \cup (IF all_devs # {} THEN all_devs ELSE {})

\* a mutant of ExperiencedPool: the unexperienced names are not taken out
ExperiencedPoolOfAll(ts, all_devs, unexperienced) == TeamAllDevNames(ts, all_devs)

\* experienced_dev_names = all_dev_names - unexperienced_dev_names
ExperiencedPool(ts, all_devs, unexperienced) ==
    TeamAllDevNames(ts, all_devs) \ unexperienced

\* assignment_count.get(name, 0)
Get(assignment, name) ==
    IF name \in DOMAIN assignment THEN assignment[name] ELSE 0

\* for dev_name in selected:
\*     assignment_count[dev_name] = assignment_count.get(dev_name, 0) + 1
Increment(assignment, selected) ==
    [name \in DOMAIN assignment \cup selected |->
        IF name \in selected THEN Get(assignment, name) + 1 ELSE assignment[name]]

\* a mutant of select_balanced: the candidates are not sorted by load
select_unbalanced(candidates, count, assignment) ==
    IF count >= Cardinality(candidates) THEN {candidates}
    ELSE {Range(Slice(names, count)) : names \in Orderings(candidates)}

\* select_balanced: the sets of names it can return
select_balanced(candidates, count, assignment) ==
    IF count >= Cardinality(candidates) THEN {candidates}
    ELSE LET lt == [p \in candidates \X candidates |->
                       Get(assignment, p[1]) < Get(assignment, p[2])]
         IN  {Range(Slice(ListSort(names, lt), count)) :
                 names \in Orderings(candidates)}

\* what one selection leaves: the team's reviewers and the counts
Selected(reviewer_names, assignment) ==
    [reviewer_names |-> reviewer_names, assignment_count |-> assignment]

\* a mutant of FillWithExperienced: the members are not left out of the fill
FillWithAnyExperienced(team_members, num_reviewers, pool, assignment) ==
    LET counted == Increment(assignment, team_members)
        remaining_slots == num_reviewers - Cardinality(team_members)
    IN  IF pool # {} /\ remaining_slots > 0
        THEN {Selected(team_members \cup selected, Increment(counted, selected)) :
                 selected \in select_balanced(pool, remaining_slots, counted)}
        ELSE {Selected(team_members, counted)}

\* fewer members than reviewers: every member, then experienced developers
\* that are not members
FillWithExperienced(team_members, num_reviewers, pool, assignment) ==
    LET counted == Increment(assignment, team_members)
        eligible == pool \ team_members
        remaining_slots == num_reviewers - Cardinality(team_members)
    IN  IF eligible # {} /\ remaining_slots > 0
        THEN {Selected(team_members \cup selected, Increment(counted, selected)) :
                 selected \in select_balanced(eligible, remaining_slots, counted)}
        ELSE {Selected(team_members, counted)}

\* a mutant of AssignTeam: a team with enough members is served from the
\* experienced pool
AssignTeamFromPool(team, pool, assignment) ==
    LET team_members == team.preferable_reviewer_names
        num_members == Cardinality(team_members)
        num_reviewers == team.reviewer_number
    IN  IF num_members = 0 \/ num_members >= num_reviewers
        THEN {Selected(selected, Increment(assignment, selected)) :
                 selected \in select_balanced(pool, num_reviewers, assignment)}
        ELSE FillWithExperienced(team_members, num_reviewers, pool, assignment)

\* the three cases of one team
AssignTeam(team, pool, assignment) ==
    LET team_members == team.preferable_reviewer_names
        num_members == Cardinality(team_members)
        num_reviewers == team.reviewer_number
    IN  IF num_members = 0
        THEN {Selected(selected, Increment(assignment, selected)) :
                 selected \in select_balanced(pool, num_reviewers, assignment)}
        ELSE IF num_members < num_reviewers
        THEN FillWithExperienced(team_members, num_reviewers, pool, assignment)
        ELSE {Selected(selected, Increment(assignment, selected)) :
                 selected \in select_balanced(team_members, num_reviewers,
                                              assignment)}

\* a mutant of StartTeam: the reviewers of an earlier run are kept
KeepTeam(team) == team

\* team.reviewer_indexes = set(); team.reviewer_names = set()
StartTeam(team) ==
    [team EXCEPT !.reviewer_indexes = {}, !.reviewer_names = {}]

\* team.reviewer_names.update(...) with the names of one selection
UpdateReviewers(team, selected) ==
    [team EXCEPT !.reviewer_names = @ \cup selected]

InitTeams ==
    /\ pc = "pool"
    /\ i = 0
    /\ \E n \in 1..MaxTeams : teams \in TeamRosters(n)
    /\ all_developers \in SUBSET RosterNames(MaxTeamDevs)
    /\ UNEXPERIENCED_DEV_NAMES \in SUBSET RosterNames(MaxTeamDevs)
    /\ experienced_devs = {}
    /\ assignment_count = <<>>
    /\ OutsideTeamsIdle

\* lines 109-129: the experienced pool and the empty assignment_count
BuildPool ==
    /\ pc = "pool"
    /\ experienced_devs' =
           ExperiencedPool(teams, all_developers, UNEXPERIENCED_DEV_NAMES)
    /\ assignment_count' = <<>>
    /\ i' = 1
    /\ pc' = "teams"
    /\ UNCHANGED <<teams, all_developers, UNEXPERIENCED_DEV_NAMES, outsideTeams>>

\* one iteration of "for team in teams"
ProcessTeam ==
    /\ pc = "teams"
    /\ i <= Len(teams)
    /\ \E o \in AssignTeam(teams[i], experienced_devs, assignment_count) :
         /\ teams' = [teams EXCEPT
                         ![i] = UpdateReviewers(StartTeam(@), o.reviewer_names)]
         /\ assignment_count' = o.assignment_count
    /\ i' = i + 1
    /\ pc' = IF i = Len(teams) THEN "assigned" ELSE "teams"
    /\ UNCHANGED <<all_developers, UNEXPERIENCED_DEV_NAMES, experienced_devs,
                   outsideTeams>>

NextTeams == BuildPool \/ ProcessTeam

SpecTeams == InitTeams /\ [][NextTeams]_vars

-----------------------------------------------------------------------------
(* SpecLoader: load_developers_from_sheet with its default values_mapper,  *)
(* src/lib/utilities.py, and the configuration it reads                    *)

\* DEFAULT_REVIEWER_NUMBER as lib/env_constants.py defines it
FallbackReviewerNumber == 1

\* the digits of a cell
DigitChars == <<"0", "1", "2", "3", "4", "5", "6", "7", "8", "9">>

\* the value of one digit
DigitValue(c) == (CHOOSE d \in DOMAIN DigitChars : DigitChars[d] = c) - 1

\* int(text) for a text of digits, acc being the value of the digits read
RECURSIVE IntOfDigits(_, _)
IntOfDigits(text, acc) ==
    IF text = <<>> THEN acc
    ELSE IntOfDigits(Tail(text), 10 * acc + DigitValue(Head(text)))

\* the "Number of Reviewers" cells: blank, or a number of up to MaxCellDigits
\* digits
Cells ==
    UNION {[1..n -> {DigitChars[d] : d \in 1..4}] : n \in 0..MaxCellDigits}

\* int(record[REVIEWER_NUMBER_HEADER] or DEFAULT_REVIEWER_NUMBER), default
\* being the value of the name DEFAULT_REVIEWER_NUMBER in lib.utilities
ReviewerNumberOf(cell, default) ==
    IF cell # <<>> THEN IntOfDigits(cell, 0) ELSE default

InitLoader ==
    /\ pc = "import"
    /\ i = 0
    /\ DEFAULT_REVIEWER_NUMBER = FallbackReviewerNumber
    /\ utilities_DEFAULT_REVIEWER_NUMBER = 0
    /\ \E n \in 1..MaxRecords : records \in [1..n -> Cells]
    /\ developers = <<>>
    /\ OutsideLoaderIdle

\* lib/utilities.py lines 12-19: from lib.env_constants import
\* DEFAULT_REVIEWER_NUMBER binds the value of that moment
ImportUtilities ==
    /\ pc = "import"
    /\ utilities_DEFAULT_REVIEWER_NUMBER' = DEFAULT_REVIEWER_NUMBER
    /\ pc' = "config"
    /\ UNCHANGED <<i, DEFAULT_REVIEWER_NUMBER, records, developers, outsideLoader>>

\* env_constants.DEFAULT_REVIEWER_NUMBER = default_reviewer_number, the value
\* of the Config sheet
SetConfiguredDefault ==
    /\ pc = "config"
    /\ \E default_reviewer_number \in 0..MaxConfigDefault :
         DEFAULT_REVIEWER_NUMBER' = default_reviewer_number
    /\ pc' = "load"
    /\ UNCHANGED <<i, utilities_DEFAULT_REVIEWER_NUMBER, records, developers,
                   outsideLoader>>

\* load_developers_from_sheet(EXPECTED_HEADERS_FOR_ALLOCATION)
LoadDevelopers ==
    /\ pc = "load"
    /\ developers' = [k \in DOMAIN records |->
                         ReviewerNumberOf(records[k],
                                          utilities_DEFAULT_REVIEWER_NUMBER)]
    /\ pc' = "loaded"
    /\ UNCHANGED <<i, DEFAULT_REVIEWER_NUMBER, utilities_DEFAULT_REVIEWER_NUMBER,
                   records, outsideLoader>>

NextLoader == ImportUtilities \/ SetConfiguredDefault \/ LoadDevelopers

SpecLoader == InitLoader /\ [][NextLoader]_vars

-----------------------------------------------------------------------------
(* SpecRunner: main of src/scripts/run_multi_sheet_rotation.py *)

\* the names of the configured sheets
SheetNames == <<"S1", "S2", "S3">>

\* max_retries of run_devs_rotation_for_sheet and run_teams_rotation_for_sheet
RotationMaxRetries == 3

\* what one attempt of a developers rotation can end with: success, a rate
\* limit error (429), another exception
DevsAttemptEvents == {"ok", "rate_limit", "error"}

\* what one attempt of a teams rotation can end with: the sheet may also have
\* no Teams tab (WorksheetNotFound)
TeamsAttemptEvents == DevsAttemptEvents \cup {"no_teams_sheet"}

\* the attempts that a rotation can go through: each but the last hits the
\* rate limit, and only the attempt that uses up max_retries may end with it
AttemptSequences(events) ==
    {a \in UNION {[1..n -> events] : n \in 1..RotationMaxRetries} :
        /\ \A k \in 1..(Len(a) - 1) : a[k] = "rate_limit"
        /\ Len(a) < RotationMaxRetries => a[Len(a)] # "rate_limit"}

\* run_devs_rotation_for_sheet: the value returned after these attempts
RECURSIVE run_devs_rotation_for_sheet(_, _)
run_devs_rotation_for_sheet(attempts, attempt_number) ==
    IF attempt_number >= RotationMaxRetries \/ attempts = <<>> THEN FALSE
    ELSE IF Head(attempts) = "ok" THEN TRUE
    ELSE IF Head(attempts) = "rate_limit"
            /\ attempt_number < RotationMaxRetries - 1
    THEN run_devs_rotation_for_sheet(Tail(attempts), attempt_number + 1)
    ELSE FALSE

\* run_teams_rotation_for_sheet: a missing Teams tab is not an error
RECURSIVE run_teams_rotation_for_sheet(_, _)
run_teams_rotation_for_sheet(attempts, attempt_number) ==
    IF attempt_number >= RotationMaxRetries \/ attempts = <<>> THEN FALSE
    ELSE IF Head(attempts) = "ok" THEN TRUE
    ELSE IF Head(attempts) = "no_teams_sheet" THEN TRUE
    ELSE IF Head(attempts) = "rate_limit"
            /\ attempt_number < RotationMaxRetries - 1
    THEN run_teams_rotation_for_sheet(Tail(attempts), attempt_number + 1)
    ELSE FALSE

\* a mutant of ExitCode: any failure is a total failure
ExitCodeWithoutPartial(total_success, total_failed) ==
    IF total_failed = 0 THEN 0 ELSE 2

\* lines 348-360: the exit code of main
ExitCode(total_success, total_failed) ==
    IF total_failed = 0 THEN 0
    ELSE IF total_success > 0 THEN 1
    ELSE 2

\* results[key] += 1
Count(r, key) == [r EXCEPT ![key] = @ + 1]

InitRunner ==
    /\ pc = "main"
    /\ i = 0
    /\ args_type \in {"devs", "teams", "all"}
    /\ \E n \in 0..MaxSheets : sheet_names = SubSeq(SheetNames, 1, n)
    /\ results = <<>>
    /\ sheet_events = <<>>
    /\ exit_code = 0
    /\ OutsideRunnerIdle

\* lines 273-297: no sheet is configured, or the counters are set up
StartMain ==
    /\ pc = "main"
    /\ IF sheet_names = <<>>
       THEN /\ exit_code' = 2
            /\ pc' = "exited"
            /\ UNCHANGED <<i, results>>
       ELSE /\ results' = [total |-> Len(sheet_names), devs_success |-> 0,
                           devs_failed |-> 0, teams_success |-> 0,
                           teams_failed |-> 0]
            /\ i' = 1
            /\ pc' = "sheets"
            /\ UNCHANGED exit_code
    /\ UNCHANGED <<args_type, sheet_names, sheet_events, outsideRunner>>

\* lines 300-330: one iteration of "for i, sheet_name in enumerate(sheet_names)"
ProcessSheet ==
    /\ pc = "sheets"
    /\ i <= Len(sheet_names)
    /\ \E devs_attempts \in IF args_type \in {"devs", "all"}
                            THEN AttemptSequences(DevsAttemptEvents) ELSE {<<>>},
          teams_attempts \in IF args_type \in {"teams", "all"}
                             THEN AttemptSequences(TeamsAttemptEvents) ELSE {<<>>} :
         LET after_devs ==
                 IF args_type \in {"devs", "all"}
                 THEN IF run_devs_rotation_for_sheet(devs_attempts, 0)
                      THEN Count(results, "devs_success")
                      ELSE Count(results, "devs_failed")
                 ELSE results
         IN  /\ results' =
                    IF args_type \in {"teams", "all"}
                    THEN IF run_teams_rotation_for_sheet(teams_attempts, 0)
                         THEN Count(after_devs, "teams_success")
                         ELSE Count(after_devs, "teams_failed")
                    ELSE after_devs
             /\ sheet_events' = Append(sheet_events,
                                       [devs |-> devs_attempts,
                                        teams |-> teams_attempts])
    /\ i' = i + 1
    /\ pc' = IF i = Len(sheet_names) THEN "summary" ELSE "sheets"
    /\ UNCHANGED <<args_type, sheet_names, exit_code, outsideRunner>>

\* lines 332-360: the summary and the exit code
ExitMain ==
    /\ pc = "summary"
    /\ exit_code' = ExitCode(results.devs_success + results.teams_success,
                             results.devs_failed + results.teams_failed)
    /\ pc' = "exited"
    /\ UNCHANGED <<i, args_type, sheet_names, results, sheet_events, outsideRunner>>

NextRunner == StartMain \/ ProcessSheet \/ ExitMain

SpecRunner == InitRunner /\ [][NextRunner]_vars

-----------------------------------------------------------------------------
(* SpecSheetRotation: one call of run_devs_rotation_for_sheet, attempt by  *)
(* attempt, src/scripts/run_multi_sheet_rotation.py                        *)

\* the pieces an exception message is made of: digits, the error status of
\* the Sheets API, any other text
MessagePieces == {"4", "2", "9", "RATE_LIMIT_EXCEEDED", "Error"}

\* str(exc): the messages of up to MaxMessageLen pieces
Messages == UNION {[1..n -> MessagePieces] : n \in 0..MaxMessageLen}

\* fragment in text
Contains(text, fragment) ==
    \E k \in 0..(Len(text) - Len(fragment)) :
        \A j \in 1..Len(fragment) : text[k + j] = fragment[j]

\* a mutant of IsRateLimitError: every exception is taken for a rate limit
IsAnyError(msg) == TRUE

\* "429" in error_msg or "RATE_LIMIT_EXCEEDED" in error_msg
IsRateLimitError(msg) ==
    \/ Contains(msg, <<"4", "2", "9">>)
    \/ Contains(msg, <<"RATE_LIMIT_EXCEEDED">>)

InitSheetRotation ==
    /\ pc = "for"
    /\ i = 0
    /\ rotation_max_retries \in 0..RotationMaxRetries
    /\ error_msg = <<>>
    /\ returned = None
    /\ OutsideAttemptsIdle

\* for attempt in range(max_retries): the body of try either completes and
\* returns True or raises; after the loop the function returns False
ForAttempt ==
    /\ pc = "for"
    /\ IF i < rotation_max_retries
       THEN \/ /\ returned' = "True"
               /\ pc' = "return"
               /\ UNCHANGED error_msg
            \/ /\ error_msg' \in Messages
               /\ pc' = "except"
               /\ UNCHANGED returned
       ELSE /\ returned' = "False"
            /\ pc' = "return"
            /\ UNCHANGED error_msg
    /\ UNCHANGED <<i, rotation_max_retries, outsideAttempts>>

\* except Exception as exc: wait and continue on a rate limit error while
\* attempts are left, return False otherwise
Except ==
    /\ pc = "except"
    /\ IF IsRateLimitError(error_msg) /\ i < rotation_max_retries - 1
       THEN /\ pc' = "sleep"
            /\ UNCHANGED returned
       ELSE /\ returned' = "False"
            /\ pc' = "return"
    /\ UNCHANGED <<i, rotation_max_retries, error_msg, outsideAttempts>>

\* time.sleep(wait_time); continue
SleepAndContinue ==
    /\ pc = "sleep"
    /\ i' = i + 1
    /\ pc' = "for"
    /\ UNCHANGED <<rotation_max_retries, error_msg, returned, outsideAttempts>>

NextSheetRotation == ForAttempt \/ Except \/ SleepAndContinue

SpecSheetRotation == InitSheetRotation /\ [][NextSheetRotation]_vars

-----------------------------------------------------------------------------
(* SpecCheck: main of src/scripts/check_scheduled_rotation_needed.py *)

\* MINIMUM_DAYS_BETWEEN_ROTATIONS of lib.env_constants
MINIMUM_DAYS_BETWEEN_ROTATIONS == 14

\* seconds of a day
SecondsPerDay == 86400

\* texts between the separators of a value of LAST_SCHEDULED_ROTATION_DATE
FirstFieldTexts ==
    {<<"0", "1">>, <<"1">>, <<"1", "5">>, <<"2", "8">>, <<"2", "9">>,
     <<"3", "2">>, <<"0", "0">>, <<"2", "0", "2", "5">>}
SecondFieldTexts ==
    {<<"0", "2">>, <<"2">>, <<"0", "3">>, <<"1", "2">>, <<"1", "3">>, <<"0", "0">>}
ThirdFieldTexts ==
    {<<"2", "0", "2", "4">>, <<"2", "0", "2", "5">>, <<"2", "5">>, <<"0", "1">>}

\* the values of the environment variable: unset, or a text that is empty or
\* made of three fields and two separators, with or without spaces around it
EnvironValues ==
    {[set |-> FALSE, padded |-> FALSE, fields |-> <<>>, sep |-> "-"]}
        \cup [set : {TRUE}, padded : BOOLEAN, fields : {<<>>}, sep : {"-"}]
        \cup [set : {TRUE}, padded : BOOLEAN,
              fields : {<<a, b, c>> : a \in FirstFieldTexts,
                                      b \in SecondFieldTexts,
                                      c \in ThirdFieldTexts},
              sep : {"-", "/"}]

\* os.environ.get("LAST_SCHEDULED_ROTATION_DATE", "").strip()
GetStripped(value) ==
    IF value.set THEN [fields |-> value.fields, sep |-> value.sep]
    ELSE [fields |-> <<>>, sep |-> "-"]

\* calendar of datetime
IsLeap(year) == year % 4 = 0 /\ (year % 100 # 0 \/ year % 400 = 0)

DaysInMonth(year, month) ==
    IF month = 2 THEN IF IsLeap(year) THEN 29 ELSE 28
    ELSE IF month \in {4, 6, 9, 11} THEN 30
    ELSE 31

RECURSIVE DaysBeforeMonth(_, _)
DaysBeforeMonth(year, month) ==
    IF month = 1 THEN 0
    ELSE DaysBeforeMonth(year, month - 1) + DaysInMonth(year, month - 1)

DaysBeforeYear(year) ==
    (year - 1) * 365 + (year - 1) \div 4 - (year - 1) \div 100
        + (year - 1) \div 400

\* datetime.toordinal
ToOrdinal(date) ==
    DaysBeforeYear(date.year) + DaysBeforeMonth(date.year, date.month) + date.day

\* (a - b).days: the whole days of the difference, rounded down
DaysBetween(a, b) ==
    ((ToOrdinal(a) - ToOrdinal(b)) * SecondsPerDay + a.second - b.second)
        \div SecondsPerDay

\* datetime.strptime(text, "%d-%m-%Y"): the date, or a ValueError
strptime(text) ==
    LET fields == text.fields
        failed == [ok |-> FALSE,
                   date |-> [year |-> 1, month |-> 1, day |-> 1, second |-> 0]]
    IN  IF \/ Len(fields) # 3
           \/ text.sep # "-"
           \/ Len(fields[1]) \notin {1, 2}
           \/ Len(fields[2]) \notin {1, 2}
           \/ Len(fields[3]) # 4
        THEN failed
        ELSE LET day == IntOfDigits(fields[1], 0)
                 month == IntOfDigits(fields[2], 0)
                 year == IntOfDigits(fields[3], 0)
             IN  IF \/ day \notin 1..31
                    \/ month \notin 1..12
                    \/ year < 1
                 THEN failed
                 ELSE IF day > DaysInMonth(year, month) THEN failed
                 ELSE [ok |-> TRUE,
                       date |-> [year |-> year, month |-> month, day |-> day,
                                 second |-> 0]]

\* a mutant of RotationDue: the threshold day itself is too early
RotationDueAfter(days) == days > MINIMUM_DAYS_BETWEEN_ROTATIONS

\* line 56: if days_since >= MINIMUM_DAYS_BETWEEN_ROTATIONS
RotationDue(days) == days >= MINIMUM_DAYS_BETWEEN_ROTATIONS

\* the values of datetime.now()
NowValues ==
    [year : 2024..MaxYear, month : {1, 3}, day : {1, 14, 15},
     second : {0, SecondsPerDay - 1}]

InitCheck ==
    /\ pc = "getenv"
    /\ i = 0
    /\ environ \in EnvironValues
    /\ now \in NowValues
    /\ last_date_str = [fields |-> <<>>, sep |-> "-"]
    /\ last_date = [year |-> 1, month |-> 1, day |-> 1, second |-> 0]
    /\ days_since = 0
    /\ check_exit = 0
    /\ OutsideCheckIdle

\* lines 34-39: read the variable; first run when it is empty
GetLastDate ==
    /\ pc = "getenv"
    /\ last_date_str' = GetStripped(environ)
    /\ IF GetStripped(environ).fields = <<>>
       THEN /\ check_exit' = 0
            /\ pc' = "checked"
       ELSE /\ pc' = "strptime"
            /\ UNCHANGED check_exit
    /\ UNCHANGED <<i, environ, now, last_date, days_since, outsideCheck>>

\* lines 42-49: parse the date; an invalid date is treated as a first run
ParseLastDate ==
    /\ pc = "strptime"
    /\ IF strptime(last_date_str).ok
       THEN /\ last_date' = strptime(last_date_str).date
            /\ pc' = "days"
            /\ UNCHANGED check_exit
       ELSE /\ check_exit' = 0
            /\ pc' = "checked"
            /\ UNCHANGED last_date
    /\ UNCHANGED <<i, environ, now, last_date_str, days_since, outsideCheck>>

\* lines 52-66: the days since the last rotation against the minimum
CompareDays ==
    /\ pc = "days"
    /\ days_since' = DaysBetween(now, last_date)
    /\ check_exit' = IF RotationDue(DaysBetween(now, last_date)) THEN 0 ELSE 1
    /\ pc' = "checked"
    /\ UNCHANGED <<i, environ, now, last_date_str, last_date, outsideCheck>>

NextCheck == GetLastDate \/ ParseLastDate \/ CompareDays

SpecCheck == InitCheck /\ [][NextCheck]_vars

-----------------------------------------------------------------------------
(* SpecSheet: the sprint columns of one sheet under scheduled runs         *)
(* (write_reviewers_to_sheet), manual runs (update_current_sprint_         *)
(* reviewers) and get_last_rotation_date                                   *)

\* the decimal digits of n, zero-padded to width
RECURSIVE Digits(_, _)
Digits(n, width) ==
    IF width = 0 THEN <<>>
    ELSE Append(Digits(n \div 10, width - 1), DigitChars[(n % 10) + 1])

\* date.strftime("%d-%m-%Y")
strftime(date) ==
    [fields |-> <<Digits(date.day, 2), Digits(date.month, 2),
                  Digits(date.year, 4)>>,
     sep |-> "-"]

\* a header is a sequence of pieces: a date text, the text
\* " / Manual Run on:", a space
NoText == [fields |-> <<>>, sep |-> "-"]
DatePiece(text) == [kind |-> "date", text |-> text]
ManualRunOn == [kind |-> "manual_run_on", text |-> NoText]
Space == [kind |-> "space", text |-> NoText]

\* " / Manual Run on:" in header
HasManualRun(header) == \E k \in DOMAIN header : header[k] = ManualRunOn

\* header.split(" / Manual Run on:")[0]
SplitFirst(header) ==
    IF HasManualRun(header)
    THEN SubSeq(header, 1,
                (CHOOSE k \in DOMAIN header :
                    /\ header[k] = ManualRunOn
                    /\ \A j \in 1..(k - 1) : header[j] # ManualRunOn) - 1)
    ELSE header

\* text.strip()
RECURSIVE strip(_)
strip(text) ==
    IF text = <<>> THEN text
    ELSE IF Head(text) = Space THEN strip(Tail(text))
    ELSE IF text[Len(text)] = Space THEN strip(SubSeq(text, 1, Len(text) - 1))
    ELSE text

\* datetime.strptime(header, "%d-%m-%Y") of a header text
strptime_header(header) ==
    IF Len(header) = 1 /\ header[1].kind = "date"
    THEN strptime(header[1].text)
    ELSE strptime(NoText)

\* a mutant of SprintDate: the header is taken whole
WholeHeader(current_header) == current_header

\* lines 426-431: the sprint date of the current header
SprintDate(current_header) ==
    IF HasManualRun(current_header)
    THEN strip(SplitFirst(current_header))
    ELSE current_header

\* f"{sprint_date} / Manual Run on: {today}"
NewHeader(sprint_date, today) ==
    sprint_date \o <<ManualRunOn, Space, DatePiece(today)>>

\* get_last_rotation_date: the date read from the first date column;
\* ok is FALSE where it returns None
get_last_rotation_date(columns) ==
    IF columns = <<>> THEN strptime(NoText)
    ELSE IF HasManualRun(columns[1])
    THEN strptime_header(strip(SplitFirst(columns[1])))
    ELSE strptime_header(columns[1])

\* the values of datetime.now() of the runs: valid dates, at two times
SheetNowValues ==
    {d \in [year : 2024..MaxYear, month : {1, 12}, day : {1, 9, 28},
            second : {0, SecondsPerDay - 1}] : TRUE}

\* a is later than b
Later(a, b) ==
    \/ ToOrdinal(a) > ToOrdinal(b)
    \/ ToOrdinal(a) = ToOrdinal(b) /\ a.second > b.second

InitSheet ==
    /\ pc = "sheet"
    /\ i = 0
    /\ date_columns = <<>>
    /\ sheet_now \in SheetNowValues
    /\ manual_runs = 0
    /\ OutsideSheetIdle

\* write_reviewers_to_sheet: a new column with today's date as header is
\* inserted before the sprint columns
ScheduledRun ==
    /\ Len(date_columns) < MaxColumns
    /\ date_columns' = <<<<DatePiece(strftime(sheet_now))>>>> \o date_columns
    /\ manual_runs' = 0
    /\ UNCHANGED <<pc, i, sheet_now, outsideSheet>>

\* update_current_sprint_reviewers: without a current header a new column
\* is created, otherwise the current column is rewritten in place
ManualRun ==
    /\ manual_runs < MaxManualRuns
    /\ manual_runs' = manual_runs + 1
    /\ IF date_columns = <<>> \/ Head(date_columns) = <<>>
       THEN date_columns' = <<<<DatePiece(strftime(sheet_now))>>>> \o date_columns
       ELSE date_columns' =
                [date_columns EXCEPT
                    ![1] = NewHeader(SprintDate(@), strftime(sheet_now))]
    /\ UNCHANGED <<pc, i, sheet_now, outsideSheet>>

\* time passes between two runs
Tick ==
    /\ \E later \in SheetNowValues :
          /\ Later(later, sheet_now)
          /\ sheet_now' = later
    /\ UNCHANGED <<pc, i, date_columns, manual_runs, outsideSheet>>

NextSheet == ScheduledRun \/ ManualRun \/ Tick

SpecSheet == InitSheet /\ [][NextSheet]_vars

-----------------------------------------------------------------------------
(* SpecRotator: the deterministic rotator, rotate(developers,              *)
(* previous_indexes) with find_reviewer, run twice in a row: the second    *)
(* run starts from the reviewer_indexes that the first one kept.           *)

\* the largest element of a set of numbers
SetMax(S) == CHOOSE x \in S : \A y \in S : y <= x

\* a record of the ring: order is the position in the ring
RingDeveloper(name, reviewer_number, order) ==
    [name |-> name,
     reviewer_number |-> reviewer_number,
     reviewer_names |-> {},
     review_for |-> {},
     reviewer_indexes |-> {},
     order |-> order]

RECURSIVE SumOfReviewerNumbers(_)
SumOfReviewerNumbers(ds) ==
    IF ds = <<>> THEN 0
    ELSE Head(ds).reviewer_number + SumOfReviewerNumbers(Tail(ds))

\* maximum_assignment = ceil(sum(reviewer_number) / N)
maximum_assignment(ds) ==
    (SumOfReviewerNumbers(ds) + Len(ds) - 1) \div Len(ds)

\* s = max(previous_indexes.get(d.name, [0])): a name without indexes starts
\* at 0
PreviousStart(name, previous) ==
    IF name \in DOMAIN previous /\ previous[name] # {}
    THEN SetMax(previous[name]) ELSE 0

\* the start of the search for developer d: in the first pass the index kept
\* from the last run, in the second the largest index used in this run
StartIndex(d, must_be_senior, previous) ==
    IF must_be_senior \/ d.reviewer_indexes = {}
    THEN PreviousStart(d.name, previous)
    ELSE SetMax(d.reviewer_indexes)

\* candidate = ring[idx mod N]
Candidate(ds, raw_index) == ds[(raw_index % Len(ds)) + 1]

\* find_reviewer rejects the candidate of developer d
Rejected(ds, d, candidate, must_be_senior, experienced) ==
    \/ candidate.name = d.name
    \/ candidate.name \in d.reviewer_names
    \/ Cardinality(candidate.review_for) >= maximum_assignment(ds)
    \/ must_be_senior /\ candidate.name \notin experienced

\* the index that reviewer_indexes keeps of an accepted candidate
RecordedIndex(ds, raw_index, recorded) ==
    IF recorded = "safe_index" THEN raw_index % Len(ds) ELSE raw_index

\* the ring after developer number k took the candidate at raw_index
Accept(ds, k, raw_index, recorded) ==
    LET c == (raw_index % Len(ds)) + 1
    IN  [n \in 1..Len(ds) |->
            LET taken ==
                    IF n = k
                    THEN [ds[n] EXCEPT
                             !.reviewer_names = @ \cup {ds[c].name},
                             !.reviewer_indexes =
                                 @ \cup {RecordedIndex(ds, raw_index, recorded)}]
                    ELSE ds[n]
            IN  IF n = c THEN [taken EXCEPT !.review_for = @ \cup {ds[k].name}]
                ELSE taken]

\* the developers in ring order, none assigned
Rings ==
    UNION {{[k \in 1..n |-> RingDeveloper(DevNames[k], numbers[k], k)] :
                numbers \in [1..n -> 0..MaxRingReviewers]} : n \in 1..MaxRing}

\* the records built afresh for the next run
Fresh(ds) ==
    [k \in 1..Len(ds) |->
        RingDeveloper(ds[k].name, ds[k].reviewer_number, ds[k].order)]

\* the first developer from number k on that the pass has work for: in the
\* first pass one that needs reviewers, in the second one that lacks some
NextToServe(ds, k, must_be_senior) ==
    LET waiting == {n \in k..Len(ds) :
                        IF must_be_senior
                        THEN ds[n].reviewer_number >= 1
                        ELSE Cardinality(ds[n].reviewer_names)
                                 < ds[n].reviewer_number}
    IN  IF waiting = {} THEN Len(ds) + 1
        ELSE CHOOSE n \in waiting : \A m \in waiting : n <= m

InitRotator ==
    /\ pc = "first_pass"
    /\ ring \in Rings
    /\ i = NextToServe(ring, 1, TRUE)
    /\ experienced_names \in SUBSET {ring[k].name : k \in DOMAIN ring}
    /\ previous_indexes \in
           [{ring[k].name : k \in DOMAIN ring} ->
                {{}} \cup {{x} : x \in 0..(Len(ring) - 1)}]
    /\ index_recorded \in {"safe_index", "raw_index"}
    /\ run = 1
    /\ skip = 1
    /\ senior_of = [name \in {ring[k].name : k \in DOMAIN ring} |-> None]
    /\ preceding_senior_of = [name \in {ring[k].name : k \in DOMAIN ring} |-> None]
    /\ OutsideRotatorIdle

\* one call of find_reviewer for developer number i: the candidate at
\* start + skip is taken, or rejected and the search goes on with skip + 1
FindStep(must_be_senior, next_pc) ==
    LET d == ring[i]
        raw_index == StartIndex(d, must_be_senior, previous_indexes) + skip
        candidate == Candidate(ring, raw_index)
    IN  IF Rejected(ring, d, candidate, must_be_senior, experienced_names)
        THEN /\ IF skip >= RecursionLimit
                THEN pc' = "stack_exhausted" /\ UNCHANGED skip
                ELSE skip' = skip + 1 /\ UNCHANGED pc
             /\ UNCHANGED <<i, ring, senior_of>>
        ELSE LET taken == Accept(ring, i, raw_index, index_recorded)
                 next == NextToServe(taken,
                                     IF must_be_senior THEN i + 1 ELSE i,
                                     must_be_senior)
             IN  /\ ring' = taken
                 /\ senior_of' = IF must_be_senior
                                 THEN [senior_of EXCEPT ![d.name] = candidate.name]
                                 ELSE senior_of
                 /\ skip' = 1
                 /\ IF next <= Len(ring)
                    THEN i' = next /\ UNCHANGED pc
                    ELSE /\ pc' = next_pc
                         /\ i' = IF must_be_senior
                                 THEN NextToServe(taken, 1, FALSE)
                                 ELSE next

\* first pass: one senior reviewer per developer
FindSenior ==
    /\ pc = "first_pass"
    /\ IF i > Len(ring)
       THEN /\ pc' = "second_pass"
            /\ i' = NextToServe(ring, 1, FALSE)
            /\ UNCHANGED <<ring, skip, senior_of>>
       ELSE FindStep(TRUE, "second_pass")
    /\ UNCHANGED <<experienced_names, previous_indexes, index_recorded, run,
                   preceding_senior_of, outsideRotator>>

\* second pass: find_reviewer until len(reviewer_names) == reviewer_number
FillReviewers ==
    /\ pc = "second_pass"
    /\ IF i > Len(ring)
       THEN /\ pc' = "rotated"
            /\ UNCHANGED <<i, ring, skip, senior_of>>
       ELSE FindStep(FALSE, "rotated")
    /\ UNCHANGED <<experienced_names, previous_indexes, index_recorded, run,
                   preceding_senior_of, outsideRotator>>

\* the next run: previous_indexes are the reviewer_indexes that the run kept,
\* the records are built afresh
RotateAgain ==
    /\ pc = "rotated"
    /\ run = 1
    /\ run' = 2
    /\ previous_indexes' =
           [name \in DOMAIN previous_indexes |->
               (CHOOSE d \in Range(ring) : d.name = name).reviewer_indexes]
    /\ preceding_senior_of' = senior_of
    /\ senior_of' = [name \in DOMAIN senior_of |-> None]
    /\ ring' = Fresh(ring)
    /\ i' = NextToServe(ring, 1, TRUE)
    /\ skip' = 1
    /\ pc' = "first_pass"
    /\ UNCHANGED <<experienced_names, index_recorded, outsideRotator>>

NextRotator == FindSenior \/ FillReviewers \/ RotateAgain

SpecRotator == InitRotator /\ [][NextRotator]_vars

-----------------------------------------------------------------------------
(* Claims about the Selector *)

\* the names of a returned list, as a set
Chosen == Range(result.names)

\* a list without repetitions
Distinct(s) == \A a, b \in DOMAIN s : a # b => s[a] # s[b]

\* C5: for candidates that are all roster names and a count >= 1, the
\* Selector returns min(count, number of candidates) distinct candidates,
\* and no candidate left out has a strictly smaller load than one returned.
C5_SelectorLoadFairness ==
    (/\ pc # "call"
     /\ number_of_names >= 1
     /\ available_names \subseteq AllDevNames(devs))
    => /\ pc = "returned"
       /\ Len(result.names) = Min(number_of_names, Cardinality(available_names))
       /\ Distinct(result.names)
       /\ Chosen \subseteq available_names
       /\ \A out \in available_names \ Chosen : \A in \in Chosen :
             Load(devs, out) >= Load(devs, in)

\* the Selector had to choose among candidates of different loads
C5_Witness ==
    /\ pc = "returned"
    /\ number_of_names >= 1
    /\ available_names \subseteq AllDevNames(devs)
    /\ Cardinality(available_names) > number_of_names
    /\ \E a, b \in available_names : Load(devs, a) < Load(devs, b)
    /\ \E a \in Chosen : \E b \in available_names \ Chosen :
          Load(devs, a) = Load(devs, b)

C26_SelectorNoSideEffects ==
    [][pc = "call" =>
          /\ pc' \in {"returned", "raised"}
          /\ available_names' = available_names
          /\ number_of_names' = number_of_names
          /\ Len(devs') = Len(devs)
          /\ \A k \in DOMAIN devs :
                /\ devs'[k].name = devs[k].name
                /\ devs'[k].reviewer_number = devs[k].reviewer_number
                /\ devs'[k].preferable_reviewer_names
                       = devs[k].preferable_reviewer_names
                /\ devs'[k].reviewer_names = devs[k].reviewer_names
                /\ devs'[k].review_for = devs[k].review_for]_vars

\* a call that shuffled, sorted and sliced: two of three candidates with
\* different loads were returned, and the three candidates are still there
C26_Witness ==
    /\ pc = "returned"
    /\ Cardinality(available_names) = 3
    /\ Len(result.names) = 2
    /\ Range(result.names) \subseteq available_names
    /\ Cardinality(Named(devs, result.names[1]).review_for)
           < Cardinality(Named(devs, result.names[2]).review_for)

-----------------------------------------------------------------------------
(* Claims about the single-pass allocator *)

\* the loop has processed developer devs[k]
Processed(k) == pc = "done" \/ (pc \in {"loop", "raised"} /\ k < i)

\* developer d has an experienced reviewer
HasExperiencedReviewer(d) == d.reviewer_names \cap valid_experienced_dev_names # {}

\* C1: after the single-pass allocator, no developer's name is in its own
\* reviewer_names, also for a developer that prefers itself or is experienced.
C1_NoSelfReview ==
    pc \in {"loop", "raised", "done"}
    => \A k \in DOMAIN devs : devs[k].name \notin devs[k].reviewer_names

\* a developer that prefers itself and is experienced got its reviewers
C1_Witness ==
    /\ pc = "done"
    /\ \E k \in DOMAIN devs :
         /\ devs[k].name \in devs[k].preferable_reviewer_names
         /\ devs[k].name \in valid_experienced_dev_names
         /\ devs[k].reviewer_names # {}

\* C2: after each developer has been processed and at the end,
\* reviewer_names and review_for are mutual inverses over the roster.
C2_MutualInverse ==
    pc \in {"loop", "raised", "done"}
    => \A d, r \in DOMAIN devs :
          devs[r].name \in devs[d].reviewer_names
              <=> devs[d].name \in devs[r].review_for

\* a roster in which somebody reviews and somebody does not
C2_Witness ==
    /\ pc = "done"
    /\ \E d, r \in DOMAIN devs : devs[r].name \in devs[d].reviewer_names
    /\ \E d, r \in DOMAIN devs : d # r /\ devs[r].name \notin devs[d].reviewer_names

C4_QuotaAtMost ==
    pc = "done"
    => \A k \in DOMAIN devs :
          Cardinality(devs[k].reviewer_names) <= Max(devs[k].reviewer_number, 1)

\* the preferred names of a developer that it can get as reviewers
PreferredOthers(d) == d.preferable_reviewer_names \ {d.name}

\* the reviewers of a developer that it prefers
PreferredReviewers(d) == d.reviewer_names \cap d.preferable_reviewer_names

\* C15: after the single-pass allocator, a developer whose preferred names
\* are all in the roster has at least min(target, preferred names other than
\* itself) preferred reviewers, target = min(reviewer_number, N - 1); while a
\* preferred name is left unused, its only non-preferred reviewer is the
\* mandatory experienced one.
C15_PreferredFirst ==
    pc \in {"loop", "raised", "done"}
    => \A k \in DOMAIN devs :
          (/\ Processed(k)
           /\ devs[k].preferable_reviewer_names \subseteq AllDevNames(devs))
          => LET target == Min(devs[k].reviewer_number, Len(devs) - 1)
                 others == devs[k].reviewer_names \ devs[k].preferable_reviewer_names
             IN  /\ Cardinality(PreferredReviewers(devs[k]))
                       >= Min(target, Cardinality(PreferredOthers(devs[k])))
                 /\ ~(PreferredOthers(devs[k]) \subseteq devs[k].reviewer_names)
                       => /\ Cardinality(others) <= 1
                          /\ others \subseteq valid_experienced_dev_names

\* a developer that prefers both others got one of them as its only
\* reviewer, and another one, with a preferred name left unused, got the
\* mandatory experienced reviewer that it does not prefer
C15_Witness ==
    /\ pc = "done"
    /\ Len(devs) = 3
    /\ \E k \in DOMAIN devs :
         /\ Cardinality(PreferredOthers(devs[k])) = 2
         /\ devs[k].preferable_reviewer_names \subseteq AllDevNames(devs)
         /\ devs[k].reviewer_number = 1
         /\ Cardinality(PreferredReviewers(devs[k])) = 1
         /\ Cardinality(devs[k].reviewer_names) = 1
    /\ \E k \in DOMAIN devs :
         /\ devs[k].preferable_reviewer_names \subseteq AllDevNames(devs)
         /\ ~(PreferredOthers(devs[k]) \subseteq devs[k].reviewer_names)
         /\ devs[k].reviewer_names \ devs[k].preferable_reviewer_names # {}

\* every preferred name of the roster is the name of one of its developers
PreferredInRoster(ds) ==
    \A k \in DOMAIN ds : ds[k].preferable_reviewer_names \subseteq AllDevNames(ds)

\* target = min(d.reviewer_number, total_developers - 1)
Target(ds, k) == Min(ds[k].reviewer_number, Len(ds) - 1)

\* C24: after the single-pass allocate_reviewers on a fresh roster of N
\* uniquely named developers whose preferred names are all in the roster,
\* every developer d has at least min(d.reviewer_number, N - 1) reviewers.
C24_QuotaReached ==
    (pc = "done" /\ PreferredInRoster(devs)) =>
        \A k \in DOMAIN devs :
            Cardinality(devs[k].reviewer_names) >= Target(devs, k)

\* a completed run in which the general phase filled a slot: a developer
\* with two reviewers has one that is neither preferred nor experienced
C24_Witness ==
    /\ pc = "done"
    /\ PreferredInRoster(devs)
    /\ Len(devs) >= 3
    /\ \E k \in DOMAIN devs :
          /\ Target(devs, k) = 2
          /\ Cardinality(devs[k].reviewer_names) = 2
          /\ devs[k].preferable_reviewer_names \cap devs[k].reviewer_names # {}
          /\ \E r \in devs[k].reviewer_names :
                /\ r \notin devs[k].preferable_reviewer_names
                /\ r \notin valid_experienced_dev_names

\* the developer has a preferred reviewer that no record of ds carries
PrefersUnknown(ds, k) ==
    ~(ds[k].preferable_reviewer_names \subseteq AllDevNames(ds))

\* C27: unknown candidate names are an error, not ignored: the Selector
\* called with count >= 1 and a non-empty candidate set containing a name
\* that no roster record carries raises instead of returning (evaluated on
\* the roster as the allocator receives it and as it is at an abort); so the
\* single-pass allocate_reviewers aborts when it reaches a developer with
\* target >= 1 that lists a preferred reviewer absent from the roster, it
\* never completes on a roster with such a developer, and on completion
\* every name in any reviewer_names is the name of another developer.
C27_UnknownNamesRaise ==
    [][/\ (pc = "sort" \/ pc' = "raised") =>
             \A available \in SUBSET AllDevNames(devs) :
                 \A number \in 1..MaxCount :
                     shuffle_and_get_the_most_available_names(
                         available \cup {Outsider}, number, devs) = {Raised}
       /\ (pc = "loop" /\ Target(devs, i) >= 1 /\ PrefersUnknown(devs, i))
             => pc' = "raised"
       /\ pc' = "done" =>
             \A k \in DOMAIN devs' :
                 /\ Target(devs', k) >= 1 => ~PrefersUnknown(devs', k)
                 /\ devs'[k].reviewer_names
                        \subseteq AllDevNames(devs') \ {devs'[k].name}]_vars

\* the allocator stopped at a developer with target >= 1 and an unknown
\* preferred name, after it had given reviewers to an earlier developer
C27_Witness ==
    /\ pc = "raised"
    /\ i > 1
    /\ Target(devs, i) >= 1
    /\ PrefersUnknown(devs, i)
    /\ devs[1].reviewer_names # {}

-----------------------------------------------------------------------------
(* Claims about the retry-based allocator *)

\* the developers of a roster that are not experienced
NonExp(ds) == NonExperiencedNames(ds, valid_experienced_dev_names)

\* C7: when one attempt (blind allocation, repair pass, final pass) is
\* complete, a non-experienced developer has only experienced reviewers and
\* an experienced developer has at most one non-experienced reviewer.
C7_ExperienceSegregation ==
    pc = "score"
    => \A k \in DOMAIN devs_copy :
          IF devs_copy[k].name \in valid_experienced_dev_names
          THEN Cardinality(devs_copy[k].reviewer_names \cap NonExp(devs_copy)) <= 1
          ELSE devs_copy[k].reviewer_names \subseteq valid_experienced_dev_names

\* an attempt ended with a non-experienced developer reviewed by two
\* experienced ones and an experienced developer reviewed by a
\* non-experienced one
C7_Witness ==
    /\ pc = "score"
    /\ \E k \in DOMAIN devs_copy :
         /\ devs_copy[k].name \notin valid_experienced_dev_names
         /\ Cardinality(devs_copy[k].reviewer_names) = 2
    /\ \E k \in DOMAIN devs_copy :
         /\ devs_copy[k].name \in valid_experienced_dev_names
         /\ Cardinality(devs_copy[k].reviewer_names \cap NonExp(devs_copy)) = 1

\* C8: after the retry-based allocator returns, no developer record of the
\* input list has its own name in its reviewer_names.
C8_NoSelfReviewAfterRetry ==
    pc = "returned"
    => \A k \in DOMAIN devs : devs[k].name \notin devs[k].reviewer_names

\* C9: when no attempt ended with an exception, the retry-based allocator
\* does not raise: it returns, with the kept attempt copied to the roster.
C9_PartialNeverFatal ==
    (pc \in {"returned", "RuntimeError"} /\ failed_attempts = 0)
    => pc = "returned"

\* C10: after the retry-based allocator returns on a roster whose experienced
\* developers with reviewer_number >= 2 are at least as many as its
\* non-experienced developers, every non-experienced developer reviews
\* somebody.
C10_NonExperiencedAssigned ==
    (/\ pc = "returned"
     /\ Cardinality({k \in DOMAIN devs :
                        /\ devs[k].name \in valid_experienced_dev_names
                        /\ devs[k].reviewer_number >= 2})
            >= Cardinality(NonExp(devs)))
    => \A k \in DOMAIN devs :
          devs[k].name \in NonExp(devs) => devs[k].review_for # {}

\* the attempts that the write-back can have selected: the one that just
\* ended, or the best one kept
SelectedAttempts == {devs_copy, best_attempt} \ {NoAttempt}

\* C21: after the retry-based allocator returns, each input record holds the
\* reviewer_names and review_for that the selected attempt computed for the
\* developer of the same name, and reviewer_names and review_for are mutual
\* inverses over the input roster, whatever the input order.
C21_WriteBackAligned ==
    pc = "returned" =>
        /\ \E selected \in SelectedAttempts :
              \A k \in DOMAIN devs :
                  /\ devs[k].reviewer_names
                         = Named(selected, devs[k].name).reviewer_names
                  /\ devs[k].review_for
                         = Named(selected, devs[k].name).review_for
        /\ \A k, j \in DOMAIN devs :
              devs[j].name \in devs[k].reviewer_names
                  <=> devs[k].name \in devs[j].review_for

\* no record of roster ds has a reviewer or reviews anybody
Unassigned(ds) ==
    \A k \in DOMAIN ds : ds[k].reviewer_names = {} /\ ds[k].review_for = {}

\* roster b holds the records of roster a, in some order
Rearranged(a, b) ==
    /\ Len(a) = Len(b)
    /\ \E order \in Orderings(DOMAIN a) : \A k \in DOMAIN a : b[k] = a[order[k]]

\* C22: the retry-based allocator never exposes an unselected attempt: an
\* attempt starts from a copy of the unmodified input roster, the input
\* roster changes in no step but the one that returns, no step changes its
\* order or a record's name, reviewer_number or preferable_reviewer_names,
\* and the step that raises RuntimeError leaves it as it was before the call.
C22_NoExposedAttempt ==
    [][/\ (pc = "attempt" /\ pc' = "phase1")
              => (Unassigned(devs) /\ Rearranged(devs, devs_copy'))
       /\ pc' # "returned" => devs' = devs
       /\ pc' = "RuntimeError" => Unassigned(devs')
       /\ Len(devs') = Len(devs)
       /\ \A k \in DOMAIN devs :
              /\ devs'[k].name = devs[k].name
              /\ devs'[k].reviewer_number = devs[k].reviewer_number
              /\ devs'[k].preferable_reviewer_names
                     = devs[k].preferable_reviewer_names]_vars

\* the allocator has returned the first of two attempts, the better one,
\* while the second, unselected one gave other reviewers
C22_Witness ==
    /\ pc = "returned"
    /\ attempt = 2
    /\ best_attempt # NoAttempt
    /\ devs_copy # best_attempt
    /\ devs = CopyBack(devs, best_attempt)
    /\ devs # CopyBack(devs, devs_copy)

\* every non-experienced developer of roster ds reviews somebody
AllNonExpAssigned(ds) ==
    \A k \in DOMAIN ds : ds[k].name \in NonExp(ds) => ds[k].review_for # {}

\* C23: the retry loop is sequential and bounded: at most max_retries
\* attempts are started, each after the one before has ended; the allocator
\* returns right after the first attempt in which every non-experienced
\* developer reviews somebody, and runs nothing after it has returned; an
\* attempt that raises is counted and the loop goes on with the next attempt:
\* only a perfect attempt or the end of the budget ends the loop.
C23_RetryLoop ==
    [][/\ attempt' <= max_retries
       /\ max_retries' = max_retries
       /\ attempt' \in {attempt, attempt + 1}
       /\ attempt' = attempt + 1 => (pc = "attempt" /\ pc' = "phase1")
       /\ pc = "score" =>
              (pc' = "returned" <=> AllNonExpAssigned(devs_copy))
       /\ pc = "score" => pc' \in {"returned", "attempt"}
       /\ pc = "returned" => pc' = "returned"
       /\ (pc = "phase1" /\ pc' = "attempt") =>
              failed_attempts' = failed_attempts + 1
       /\ (pc = "attempt" /\ attempt < max_retries) =>
              (pc' = "phase1" /\ attempt' = attempt + 1)
       /\ (pc = "attempt" /\ pc' \in {"returned", "RuntimeError"}) =>
              attempt = max_retries]_vars

\* called with the default max_retries, the allocator has returned after its
\* first attempt, in which the non-experienced developer was assigned
C23_Witness ==
    /\ pc = "returned"
    /\ max_retries = DefaultMaxRetries
    /\ attempt = 1
    /\ NonExp(devs) # {}
    /\ AllNonExpAssigned(devs_copy)

\* the experienced developers of ds that phase 3 may still give a
\* non-experienced reviewer: free space and no non-experienced reviewer
OpenForNonExp(ds) ==
    {k \in DOMAIN ds :
        /\ ds[k].name \in valid_experienced_dev_names
        /\ Cardinality(ds[k].reviewer_names) < ds[k].reviewer_number
        /\ ds[k].reviewer_names \cap NonExp(ds) = {}}

\* the final pass has run on the roster kept in devs_before_phase3
FinalPassDone == pc = "score" /\ devs_before_phase3 # <<>>

\* C25: the final pass of one attempt is maximal and rule-preserving: when
\* it ends with a non-experienced developer that still reviews nobody, no
\* experienced developer has both free space and no non-experienced
\* reviewer; the pass only adds, to an experienced developer that had free
\* space and no non-experienced reviewer, one non-experienced name, so the
\* quota and the at-most-one rule are kept.
C25_FinalPassMaximal ==
    FinalPassDone =>
        /\ (\E u \in DOMAIN devs_copy :
               /\ devs_copy[u].name \in NonExp(devs_copy)
               /\ devs_copy[u].review_for = {})
           => OpenForNonExp(devs_copy) = {}
        /\ Len(devs_copy) = Len(devs_before_phase3)
        /\ \A k \in DOMAIN devs_copy :
              LET before == devs_before_phase3[k]
                  after == devs_copy[k]
                  added == after.reviewer_names \ before.reviewer_names
              IN  /\ after.name = before.name
                  /\ after.reviewer_number = before.reviewer_number
                  /\ before.reviewer_names \subseteq after.reviewer_names
                  /\ added # {} =>
                        /\ k \in OpenForNonExp(devs_before_phase3)
                        /\ Cardinality(added) = 1
                        /\ added \subseteq NonExp(devs_copy)
                        /\ Cardinality(after.reviewer_names) <= after.reviewer_number
                        /\ \A r \in added :
                              /\ Named(devs_before_phase3, r).review_for = {}
                              /\ Named(devs_copy, r).review_for = {after.name}
                  /\ Cardinality(before.reviewer_names) <= before.reviewer_number
                        => Cardinality(after.reviewer_names) <= after.reviewer_number
        /\ Segregated(devs_copy, valid_experienced_dev_names)

\* the pass gave a reviewer away and still left a non-experienced developer
\* that reviews nobody
C25_Witness ==
    /\ FinalPassDone
    /\ \E k \in DOMAIN devs_copy :
          devs_copy[k].reviewer_names # devs_before_phase3[k].reviewer_names
    /\ \E u \in DOMAIN devs_copy :
          /\ devs_copy[u].name \in NonExp(devs_copy)
          /\ devs_copy[u].review_for = {}

-----------------------------------------------------------------------------
(* Claims about the team allocator *)

\* the loop has processed team teams[k]
TeamProcessed(k) == pc = "assigned" \/ (pc = "teams" /\ k < i)

\* the members of team teams[k]
Members(k) == teams[k].preferable_reviewer_names

\* the experienced pool as the claims describe it: the members of all teams
\* and the supplied all_developers, minus the unexperienced names
PoolOfClaims ==
    (UNION {Members(k) : k \in DOMAIN teams} \cup all_developers)
        \ UNEXPERIENCED_DEV_NAMES

\* the number of teams that the call has given to a developer
TeamsReviewedBy(name) ==
    Cardinality({k \in DOMAIN teams :
                    TeamProcessed(k) /\ name \in teams[k].reviewer_names})

\* C11: a processed team without members has exactly min(reviewer_number,
\* size of the experienced pool) reviewers, all of the experienced pool, and
\* none of them unexperienced.
C11_TeamWithoutMembers ==
    \A k \in DOMAIN teams :
        (TeamProcessed(k) /\ Members(k) = {})
        => /\ Cardinality(teams[k].reviewer_names)
                 = Min(teams[k].reviewer_number, Cardinality(PoolOfClaims))
           /\ teams[k].reviewer_names \subseteq PoolOfClaims
           /\ teams[k].reviewer_names \cap UNEXPERIENCED_DEV_NAMES = {}

\* a memberless team got one of two experienced developers while some known
\* developer is unexperienced
C11_Witness ==
    /\ pc = "assigned"
    /\ \E k \in DOMAIN teams :
         /\ Members(k) = {}
         /\ Cardinality(teams[k].reviewer_names) = 1
         /\ Cardinality(PoolOfClaims) = 2
    /\ UNEXPERIENCED_DEV_NAMES \cap all_developers # {}

\* C12: a processed team with m members, 0 < m < reviewer_number, has all
\* its members as reviewers plus min(reviewer_number - m, experienced
\* developers outside the team) further names, each an experienced developer
\* that is not a member.
C12_TeamWithFewerMembers ==
    \A k \in DOMAIN teams :
        (/\ TeamProcessed(k)
         /\ 0 < Cardinality(Members(k))
         /\ Cardinality(Members(k)) < teams[k].reviewer_number)
        => /\ Members(k) \subseteq teams[k].reviewer_names
           /\ teams[k].reviewer_names \ Members(k) \subseteq PoolOfClaims
           /\ Cardinality(teams[k].reviewer_names \ Members(k))
                 = Min(teams[k].reviewer_number - Cardinality(Members(k)),
                       Cardinality(PoolOfClaims \ Members(k)))

\* a team of one unexperienced member got one of two experienced outsiders
C12_Witness ==
    /\ pc = "assigned"
    /\ \E k \in DOMAIN teams :
         /\ Cardinality(Members(k)) = 1
         /\ Members(k) \subseteq UNEXPERIENCED_DEV_NAMES
         /\ teams[k].reviewer_number = 2
         /\ Cardinality(teams[k].reviewer_names) = 2
         /\ Cardinality(PoolOfClaims \ Members(k)) = 2

\* C13: a processed team with at least reviewer_number members has exactly
\* reviewer_number reviewers, every one a member of the team.
C13_TeamWithEnoughMembers ==
    \A k \in DOMAIN teams :
        (TeamProcessed(k) /\ Cardinality(Members(k)) >= teams[k].reviewer_number)
        => /\ Cardinality(teams[k].reviewer_names) = teams[k].reviewer_number
           /\ teams[k].reviewer_names \subseteq Members(k)

\* a team of three got two of its members although an experienced developer
\* outside the team reviews nothing
C13_Witness ==
    /\ pc = "assigned"
    /\ \E k \in DOMAIN teams :
         /\ Cardinality(Members(k)) = 3
         /\ teams[k].reviewer_number = 2
         /\ Cardinality(teams[k].reviewer_names) = 2
         /\ Members(k) \cap UNEXPERIENCED_DEV_NAMES # {}

\* C14: when no team of the call has members, then after each team the
\* numbers of teams reviewed by two developers of the experienced pool differ
\* by at most 1, and nobody reviews more than ceil(slots / pool size) teams.
C14_CrossTeamBalance ==
    (/\ pc \in {"teams", "assigned"}
     /\ \A k \in DOMAIN teams : Members(k) = {})
    => LET slots == Cardinality({<<k, name>> \in (DOMAIN teams) \X PoolOfClaims :
                                    /\ TeamProcessed(k)
                                    /\ name \in teams[k].reviewer_names})
           size == Cardinality(PoolOfClaims)
       IN  /\ \A a, b \in PoolOfClaims :
                 TeamsReviewedBy(a) - TeamsReviewedBy(b) <= 1
           /\ \A a \in PoolOfClaims :
                 TeamsReviewedBy(a) <= (slots + size - 1) \div size

\* two memberless teams shared a pool of three: somebody reviews both, and
\* nobody reviews none
C14_Witness ==
    /\ pc = "assigned"
    /\ \A k \in DOMAIN teams : Members(k) = {}
    /\ Cardinality(PoolOfClaims) = 3
    /\ \E a \in PoolOfClaims : TeamsReviewedBy(a) = 2
    /\ \E a \in PoolOfClaims : TeamsReviewedBy(a) = 1
    /\ \A a \in PoolOfClaims : TeamsReviewedBy(a) >= 1

\* the record of a team as the call would find it without left-overs
Clean(team) ==
    Team(team.name, team.reviewer_number, team.preferable_reviewer_names,
         [reviewer_names |-> {}, reviewer_indexes |-> {}])

\* C28: assign_team_reviewers starts every team from a clean slate: the
\* reviewer_names and reviewer_indexes a record held before the call are
\* discarded, so the record of a processed team is one that the same step
\* gives to the clean record (nothing accumulates), and no step changes a
\* team's name, reviewer_number or membership.
C28_CleanSlate ==
    [][/\ Len(teams') = Len(teams)
       /\ \A k \in DOMAIN teams :
             /\ teams'[k].name = teams[k].name
             /\ teams'[k].reviewer_number = teams[k].reviewer_number
             /\ teams'[k].preferable_reviewer_names
                    = teams[k].preferable_reviewer_names
       /\ (pc = "teams" /\ pc' \in {"teams", "assigned"}) =>
             /\ teams'[i].reviewer_indexes = {}
             /\ teams'[i] \in
                    {UpdateReviewers(Clean(teams[i]), o.reviewer_names) :
                        o \in AssignTeam(Clean(teams[i]), experienced_devs,
                                         assignment_count)}
             /\ teams'[i].reviewer_names
                    \subseteq Members(i) \cup experienced_devs
             /\ \A k \in DOMAIN teams : k # i => teams'[k] = teams[k]]_vars

\* in the middle of a call on two teams: the first has been given one of
\* its own two members and holds no index, the second still holds the
\* reviewers and indexes of an earlier run that its turn will discard
C28_Witness ==
    /\ pc = "teams"
    /\ i = 2
    /\ Len(teams) = 2
    /\ Members(1) = {DevNames[2], DevNames[3]}
    /\ teams[1].reviewer_number = 1
    /\ Cardinality(teams[1].reviewer_names) = 1
    /\ teams[1].reviewer_names \subseteq Members(1)
    /\ teams[1].reviewer_indexes = {}
    /\ teams[2].reviewer_names = {DevNames[1], Outsider}
    /\ teams[2].reviewer_indexes # {}

-----------------------------------------------------------------------------
(* Claims about the loader *)

\* C16: a blank "Number of Reviewers" cell gives the developer the default
\* that lib.env_constants holds when load_developers_from_sheet is called,
\* a cell that is not blank gives its own number.
C16_ConfiguredDefaultOnBlank ==
    pc = "loaded"
    => \A k \in DOMAIN records :
          developers[k] = IF records[k] = <<>> THEN DEFAULT_REVIEWER_NUMBER
                          ELSE IntOfDigits(records[k], 0)

-----------------------------------------------------------------------------
(* Claims about the multi-sheet runner *)

\* main has exited
Exited == pc = "exited"

\* the rotation with these attempts was run
RotationRun(attempts) == attempts # <<>>

\* the rotation with these attempts ended well: its last attempt succeeded, or
\* found no Teams tab
RotationSucceeded(attempts) ==
    /\ RotationRun(attempts)
    /\ attempts[Len(attempts)] \in {"ok", "no_teams_sheet"}

\* the rotation with these attempts was run and failed
RotationFailed(attempts) ==
    RotationRun(attempts) /\ ~RotationSucceeded(attempts)

\* the sheets that were processed
ProcessedSheets == DOMAIN sheet_events

\* sheet k was processed successfully: none of its rotations failed
SheetSucceeded(k) ==
    /\ ~RotationFailed(sheet_events[k].devs)
    /\ ~RotationFailed(sheet_events[k].teams)

\* sheet k failed
SheetFailed(k) == ~SheetSucceeded(k)

\* the rotations that were run, over all sheets
RotationsRun ==
    {sheet_events[k].devs : k \in ProcessedSheets}
        \cup {sheet_events[k].teams : k \in ProcessedSheets}

RateLimited ==
    \/ Contains(error_msg, <<"4", "2", "9">>)
    \/ Contains(error_msg, <<"RATE_LIMIT_EXCEEDED">>)

\* C29: run_devs_rotation_for_sheet makes at most max_retries attempts for
\* one sheet; a new attempt is made only after an attempt failed with a
\* message that contains "429" or "RATE_LIMIT_EXCEEDED"; any other error
\* makes it return False at once; the first attempt that completes makes
\* it return True; after max_retries rate-limited attempts it returns
\* False.
C29_RateLimitRetry ==
    [][/\ i' \in {i, i + 1}
       /\ rotation_max_retries' = rotation_max_retries
       /\ pc' = "except" => i' < rotation_max_retries'
       /\ i' = i + 1 => (pc = "sleep" /\ RateLimited /\ i' < rotation_max_retries)
       /\ pc' = "sleep" => (pc = "except" /\ RateLimited)
       /\ (pc = "for" /\ pc' = "return" /\ i < rotation_max_retries)
             => returned' = "True"
       /\ (pc = "except" /\ ~RateLimited)
             => (pc' = "return" /\ returned' = "False")
       /\ (pc = "except" /\ RateLimited /\ i + 1 < rotation_max_retries)
             => pc' = "sleep"
       /\ (pc = "except" /\ RateLimited /\ i + 1 = rotation_max_retries)
             => (pc' = "return" /\ returned' = "False")
       /\ returned' # None <=> pc' = "return"
       /\ pc = "return" => returned' = returned]_vars

\* the default three attempts were all rate limited, the last one by a
\* message that holds 429 between other text, and the call returned False
C29_Witness ==
    /\ pc = "return"
    /\ returned = "False"
    /\ rotation_max_retries = RotationMaxRetries
    /\ i = RotationMaxRetries - 1
    /\ error_msg = <<"Error", "4", "2", "9">>

-----------------------------------------------------------------------------
(* Claims about the scheduled-rotation check *)

\* the check has exited
Checked == pc = "checked"

\* LAST_SCHEDULED_ROTATION_DATE is a valid date (DD-MM-YYYY, spaces around it
\* aside)
ValidLastDate == environ.set /\ strptime(GetStripped(environ)).ok

\* the whole days elapsed from that date to now
WholeDaysElapsed == DaysBetween(now, strptime(GetStripped(environ)).date)

\* LAST_SCHEDULED_ROTATION_DATE is 01-03-2025
FirstOfMarch2025 ==
    /\ environ.set
    /\ environ.fields = <<(<<"0", "1">>), (<<"0", "3">>), (<<"2", "0", "2", "5">>)>>
    /\ environ.sep = "-"

-----------------------------------------------------------------------------
(* Claims about the sprint columns of the sheet *)

\* the calendar day of a time
DayOf(time) == [time EXCEPT !.second = 0]

\* the header "D / Manual Run on: T" for the days D and T
ManualHeader(sprint, today) ==
    <<DatePiece(strftime(sprint)), ManualRunOn, Space, DatePiece(strftime(today))>>

\* C30: manual runs do not move the schedule: a scheduled run creates a
\* sprint column whose header date D is the day of the run; every manual
\* run after it rewrites that column in place with the header
\* "D / Manual Run on: <today>", inserts no column and leaves the other
\* columns alone, so get_last_rotation_date returns D before and after it.
C30_ManualRunsKeepSchedule ==
    [][/\ (manual_runs' = 0 /\ Len(date_columns') = Len(date_columns) + 1)
             => /\ get_last_rotation_date(date_columns').ok
                /\ get_last_rotation_date(date_columns').date = DayOf(sheet_now)
       /\ (manual_runs' = manual_runs + 1 /\ date_columns # <<>>)
             => LET D == get_last_rotation_date(date_columns)
                IN  /\ D.ok
                    /\ Len(date_columns') = Len(date_columns)
                    /\ Tail(date_columns') = Tail(date_columns)
                    /\ date_columns'[1] = ManualHeader(D.date, sheet_now)
                    /\ get_last_rotation_date(date_columns') = D]_vars

\* the newest of two sprint columns was created by a scheduled run and has
\* since been rewritten by two manual runs, the last of them fourteen days
\* or more after the sprint date that get_last_rotation_date still returns
C30_Witness ==
    /\ Len(date_columns) = 2
    /\ manual_runs = 2
    /\ HasManualRun(date_columns[1])
    /\ date_columns[1] = ManualHeader(get_last_rotation_date(date_columns).date,
                                      sheet_now)
    /\ DaysBetween(sheet_now, get_last_rotation_date(date_columns).date)
           >= MINIMUM_DAYS_BETWEEN_ROTATIONS

-----------------------------------------------------------------------------
(* Claims about the deterministic rotator *)

\* find_reviewer is running for developer number i
Searching == pc \in {"first_pass", "second_pass"} /\ i <= Len(ring)

\* C19: rotate terminates, either with every developer holding exactly
\* reviewer_number reviewers or by raising an error; once every ring position
\* is rejected for a developer, that is after as many rejections as the ring
\* has positions, find_reviewer stops and raises instead of increasing skip:
\* skip never exceeds the size of the ring, and the stack is never exhausted.
C19_RotateTerminates ==
    /\ Searching => skip <= Len(ring)
    /\ pc # "stack_exhausted"
    /\ pc = "rotated" =>
          \A k \in DOMAIN ring :
              Cardinality(ring[k].reviewer_names) = ring[k].reviewer_number

\* C20: when rotate is run with the previous_indexes of the preceding run on
\* the same roster and order, every developer with reviewer_number >= 1 gets
\* a first (senior) reviewer different from the one of the preceding run.
C20_DifferentSenior ==
    (pc = "rotated" /\ run = 2) =>
        \A k \in DOMAIN ring :
            ring[k].reviewer_number >= 1 =>
                senior_of[ring[k].name] # preceding_senior_of[ring[k].name]

=============================================================================
